---- MODULE Spec2Model ----
(***************************************************************************)
(* prisma-ksuid: the KSUID generator and the nested-create rewriter of the *)
(* Prisma Client extension (createKsuidExtension), as a state machine.     *)
(*                                                                         *)
(* JavaScript values are tagged records [t, v]:                            *)
(*   "undef", "null"   v = <<>>                                            *)
(*   "str"             v = the string, a tuple of one-character strings    *)
(*   "num"             v = the number                                      *)
(*   "arr"             v = the tuple of elements                           *)
(*   "obj"             v = the tuple of entries [k, v] in insertion order  *)
(* Strings are tuples of characters so that charAt, slice, endsWith and    *)
(* template concatenation are computed, not assumed.                       *)
(***************************************************************************)
EXTENDS Integers, Sequences, FiniteSets, Bags, TLC

VARIABLES options, now, drawn, pc, op, model, callArgs, args, context,
          queried, queryArgs, thrown, generated, log, issued, encoded,
          setups, middlewareWarned, supplied, answer, returned, hasWarned,
          inflight, visited

vars == <<options, now, drawn, pc, op, model, callArgs, args, context,
          queried, queryArgs, thrown, generated, log, issued, encoded,
          setups, middlewareWarned, supplied, answer, returned, hasWarned,
          inflight, visited>>

-----------------------------------------------------------------------------
(* JavaScript values *)

Undef == [t |-> "undef", v |-> <<>>]

Null == [t |-> "null", v |-> <<>>]

Str(s) == [t |-> "str", v |-> s]

Num(n) == [t |-> "num", v |-> n]

Arr(elems) == [t |-> "arr", v |-> elems]

Obj(entries) == [t |-> "obj", v |-> entries]

Entry(key, value) == [k |-> key, v |-> value]

\* typeof x === "object"
TypeofObject(x) == x.t \in {"obj", "arr", "null"}

\* Array.isArray(x)
IsArray(x) == x.t = "arr"

\* JavaScript truthiness: !x is ~Truthy(x)
Truthy(x) ==
  CASE x.t = "undef" -> FALSE
    [] x.t = "null" -> FALSE
    [] x.t = "str" -> Len(x.v) > 0
    [] x.t = "num" -> x.v # 0
    [] OTHER -> TRUE

\* key in x, for an object x
HasKey(x, key) == x.t = "obj" /\ \E i \in 1..Len(x.v) : x.v[i].k = key

\* x[key]: undefined when the key is absent
Get(x, key) ==
  IF HasKey(x, key)
  THEN x.v[CHOOSE i \in 1..Len(x.v) : x.v[i].k = key].v
  ELSE Undef

\* { ...x, [key]: value }: an own key keeps its position, a new key goes last
Spread(x, key, value) ==
  IF HasKey(x, key)
  THEN [t |-> "obj",
        v |-> [x.v EXCEPT ![CHOOSE i \in 1..Len(x.v) : x.v[i].k = key] =
                            [k |-> key, v |-> value]]]
  ELSE [t |-> "obj", v |-> Append(x.v, [k |-> key, v |-> value])]

-----------------------------------------------------------------------------
(* Characters *)

LowerCase ==
  <<"a","b","c","d","e","f","g","h","i","j","k","l","m",
    "n","o","p","q","r","s","t","u","v","w","x","y","z">>

UpperCase ==
  <<"A","B","C","D","E","F","G","H","I","J","K","L","M",
    "N","O","P","Q","R","S","T","U","V","W","X","Y","Z">>

\* String.prototype.toUpperCase on one character
toUpperCase(c) ==
  IF \E i \in 1..Len(LowerCase) : LowerCase[i] = c
  THEN UpperCase[CHOOSE i \in 1..Len(LowerCase) : LowerCase[i] = c]
  ELSE c

\* s.endsWith(suffix)
endsWith(s, suffix) ==
  /\ Len(s) >= Len(suffix)
  /\ SubSeq(s, Len(s) - Len(suffix) + 1, Len(s)) = suffix

\* s.startsWith(p)
startsWith(s, p) == Len(s) >= Len(p) /\ SubSeq(s, 1, Len(p)) = p

-----------------------------------------------------------------------------
(* KSUID generation *)

EPOCH == 1400000000

BASE62_ALPHABET ==
  <<"0","1","2","3","4","5","6","7","8","9">> \o UpperCase \o LowerCase

KsuidLength == 27

\* BigInt division by 62n over the big-endian base-256 digits lo..hi of
\* bytes, carry coming in from the left: quotient digits and remainder. The
\* range is divided as its left half followed by its right half.
RECURSIVE DivMod62(_, _, _, _)
DivMod62(bytes, lo, hi, carry) ==
  IF lo > hi
  THEN [q |-> <<>>, r |-> carry]
  ELSE IF lo = hi
  THEN [q |-> <<(carry * 256 + bytes[lo]) \div 62>>,
        r |-> (carry * 256 + bytes[lo]) % 62]
  ELSE LET left == DivMod62(bytes, lo, (lo + hi) \div 2, carry)
           right == DivMod62(bytes, (lo + hi) \div 2 + 1, hi, left.r)
       IN [q |-> left.q \o right.q, r |-> right.r]

IsZero(bytes) == \A i \in 1..Len(bytes) : bytes[i] = 0

\* while (num > 0) { str = ALPHABET[num % 62n] + str; num /= 62n }, run for
\* at most k rounds: the digits found and what is left of num. The rounds are
\* run as their first half followed by their second half.
RECURSIVE Base62Rounds(_, _)
Base62Rounds(num, k) ==
  IF k = 0 \/ IsZero(num)
  THEN [str |-> <<>>, num |-> num]
  ELSE IF k = 1
  THEN LET d == DivMod62(num, 1, Len(num), 0)
       IN [str |-> <<BASE62_ALPHABET[d.r + 1]>>, num |-> d.q]
  ELSE LET first == Base62Rounds(num, k \div 2)
           second == Base62Rounds(first.num, k - k \div 2)
       IN [str |-> second.str \o first.str, num |-> second.num]

\* The loop run to its end: a byte holds less than two base-62 digits, so
\* 2 * Len(num) rounds bring num to zero
Base62Digits(num) == Base62Rounds(num, 2 * Len(num)).str

\* str.padStart(n, "0")
padStart(str, n) ==
  [i \in 1..(IF Len(str) >= n THEN 0 ELSE n - Len(str)) |-> "0"] \o str

\* The digits as the loop leaves them, not padded
encodeBase62Unpadded(buffer) == Base62Digits(buffer)

encodeBase62(buffer) == padStart(Base62Digits(buffer), KsuidLength)

\* The four bytes of seconds written low byte first
writeUInt32LE(seconds) ==
  << seconds % 256, (seconds \div 256) % 256, (seconds \div 65536) % 256,
     (seconds \div 16777216) % 256 >>

\* timeBuffer.writeUInt32BE(seconds)
writeUInt32BE(seconds) ==
  << (seconds \div 16777216) % 256, (seconds \div 65536) % 256,
     (seconds \div 256) % 256, seconds % 256 >>

\* The k-th draw of 16 bytes from the random source: the source is an input,
\* modelled as a stream of pairwise distinct payloads.
randomBytes(k) == [i \in 1..16 |-> IF i = 16 THEN k % 256
                                   ELSE IF i = 15 THEN (k \div 256) % 256
                                   ELSE (17 * i) % 256]

\* Math.floor(Date.now() / 1000) at the intercepted call
Clock == 1762300800

\* The string of the KSUID made at second t from the k-th random payload
KsuidString(t, k) == encodeBase62(writeUInt32BE(t - EPOCH) \o randomBytes(k))

\* The strings of the first draws at second Clock, worked out once
FirstDraws == <<>> \o [k \in 1..16 |-> KsuidString(Clock, k)]

\* The same a second later
LaterDraws == <<>> \o [k \in 1..16 |-> KsuidString(Clock + 1, k)]

\* KSUID.random().toString() at second t with the k-th random payload
KsuidRandom(t, k) ==
  IF t = Clock /\ k \in 1..Len(FirstDraws)
  THEN FirstDraws[k]
  ELSE IF t = Clock + 1 /\ k \in 1..Len(LaterDraws)
  THEN LaterDraws[k]
  ELSE KsuidString(t, k)

\* The identifier whose body encodes the timestamp alone, the random bytes
\* left at zero
generateKSUIDTimeOnly(prefix, t, payload) ==
  prefix \o encodeBase62(writeUInt32BE(t - EPOCH) \o [i \in 1..16 |-> 0])

\* generateKSUID(prefix) run at second t with crypto.randomBytes(16)
\* returning payload
generateKSUIDWith(prefix, t, payload) ==
  prefix \o encodeBase62(writeUInt32BE(t - EPOCH) \o payload)

\* `${prefix}${ksuid.toString()}`; st counts the draws so far
generateKSUID(prefix, st) ==
  [val |-> Str(prefix \o KsuidRandom(now, drawn + st.n + 1)),
   st |-> [st EXCEPT !.n = st.n + 1,
                     !.log = Append(st.log, [e |-> "generate", m |-> prefix])]]

-----------------------------------------------------------------------------
(* Names the code spells out *)

kId == <<"i","d">>

kCreate == <<"c","r","e","a","t","e">>

kCreateMany == <<"c","r","e","a","t","e","M","a","n","y">>

kData == <<"d","a","t","a">>

kConnectOrCreate ==
  <<"c","o","n","n","e","c","t","O","r","C","r","e","a","t","e">>

kUpsert == <<"u","p","s","e","r","t">>

kUpdate == <<"u","p","d","a","t","e">>

kWhere == <<"w","h","e","r","e">>

kItems == <<"i","t","e","m","s">>

kItem == <<"i","t","e","m">>

kAuthor == <<"a","u","t","h","o","r">>

\* A relation field the plural rule turns into Item
kItemsField == <<"I","t","e","m","s">>

mUser == <<"U","s","e","r">>

mItem == <<"I","t","e","m">>

mOrderItem == <<"O","r","d","e","r","I","t","e","m">>

kClientVersion ==
  <<"_","c","l","i","e","n","t","V","e","r","s","i","o","n">>

kDmmf == <<"_","d","m","m","f">>

kDatamodel == <<"d","a","t","a","m","o","d","e","l">>

kModels == <<"m","o","d","e","l","s">>

kFields == <<"f","i","e","l","d","s">>

kName == <<"n","a","m","e">>

kType == <<"t","y","p","e">>

-----------------------------------------------------------------------------
(* Errors and the effects threaded through one handler run *)

NoError == [kind |-> "none", model |-> <<>>]

\* new Error(`Prefix not defined or invalid for model "${model}".`)
PrefixNotDefined(m) == [kind |-> "PrefixNotDefined", model |-> m]

\* What a fallback function of the caller throws when asked about model m
PrefixFnError(m) == [kind |-> "PrefixFnError", model |-> m]

\* new Error("A valid prefixMap must be provided.")
InvalidPrefixMap == [kind |-> "InvalidPrefixMap", model |-> <<>>]

\* TypeError: Cannot read properties of null / Cannot create property
TypeError == [kind |-> "TypeError", model |-> <<>>]

\* new Error("Database connection failed"), what the underlying call may
\* reject with
DatabaseError == [kind |-> "DatabaseError", model |-> <<>>]

\* A promise: not settled yet, resolved with a value, rejected with an error
Unsettled == [status |-> "pending", value |-> Undef, err |-> NoError]

Resolved(x) == [status |-> "resolved", value |-> x, err |-> NoError]

Rejected(e) == [status |-> "rejected", value |-> Undef, err |-> e]

\* n: generator calls, log: resolutions, fallback calls and generator calls
\* in program order, err: the exception in flight, visited: the mappings
\* processNestedCreates looped over, in program order
NoEffects == [n |-> 0, log |-> <<>>, err |-> NoError, visited |-> <<>>]

Failed(st) == st.err.kind # "none"

Throw(st, e) == [st EXCEPT !.err = e]

Logged(st, event, m) == [st EXCEPT !.log = Append(st.log, [e |-> event, m |-> m])]

-----------------------------------------------------------------------------
(* createKsuidExtension: the check of the options it is given *)

\* The check that lets every typeof "object" value through, arrays included
createKsuidExtensionArraysPass(given) ==
  IF ~Truthy(given.prefixMap) \/ ~TypeofObject(given.prefixMap)
  THEN [extension |-> FALSE, err |-> InvalidPrefixMap]
  ELSE [extension |-> TRUE, err |-> NoError]

\* Either the throw of the validation or the extension that is returned
createKsuidExtension(given) ==
  IF \/ ~Truthy(given.prefixMap)
     \/ ~TypeofObject(given.prefixMap)
     \/ IsArray(given.prefixMap)
  THEN [extension |-> FALSE, err |-> InvalidPrefixMap]
  ELSE [extension |-> TRUE, err |-> NoError]

-----------------------------------------------------------------------------
(* createKsuidExtension: the closures over the options *)

isJsonLike(value) == TypeofObject(value) /\ value.t # "null" /\ ~IsArray(value)

\* The falsy test `!value[primaryKeyField]`, which also takes 0 for missing
isMissingIdFalsy(value, primaryKeyField) ==
  ~Truthy(Get(value, primaryKeyField))

isMissingId(value, primaryKeyField) ==
  IF ~HasKey(value, primaryKeyField)
  THEN TRUE
  ELSE LET idValue == Get(value, primaryKeyField)
       IN IF idValue.t \in {"undef", "null"}
          THEN TRUE
          ELSE IF idValue.t = "str"
               THEN Len(idValue.v) = 0
               ELSE FALSE

\* { ...value, [primaryKeyField]: g }, g being the generator's answer
withId(value, primaryKeyField, g) ==
  [val |-> Spread(value, primaryKeyField, g.val), st |-> g.st]

withGeneratedId(value, prefix, primaryKeyField, st) ==
  IF isMissingId(value, primaryKeyField)
  THEN withId(value, primaryKeyField, generateKSUID(prefix, st))
  ELSE [val |-> value, st |-> st]

\* options.primaryKeyField: [fn |-> FALSE, name] is a field name,
\* [fn |-> TRUE, name, special] the function that answers special[m] for the
\* models of its domain and name for the others.
getPrimaryKeyField(m) ==
  LET primaryKeyField == options.primaryKeyField
  IN IF primaryKeyField.fn
     THEN IF m \in DOMAIN primaryKeyField.special
          THEN primaryKeyField.special[m]
          ELSE primaryKeyField.name
     ELSE primaryKeyField.name

\* options.prefixFn(m) throws: "throws" for every model, "throwsItem" for Item
prefixFnThrows(m) ==
  \/ options.prefixFn = "throws"
  \/ options.prefixFn = "throwsItem" /\ m = mItem

\* options.prefixFn(m) for the fallback functions of the model
prefixFn(m) ==
  CASE options.prefixFn = "suffix" -> Str(m \o <<"_">>)
    [] options.prefixFn = "empty" -> Str(<<>>)
    [] options.prefixFn = "null" -> Null
    [] OTHER -> Undef

\* getPrefix without its fallback step: the table entry alone
getPrefixTableOnly(m, st) ==
  [val |-> IF m \in DOMAIN options.prefixMap
           THEN Str(options.prefixMap[m])
           ELSE Undef,
   st |-> st]

\* getPrefix asking the fallback function whatever the table holds
getPrefixFallbackFirst(m, st) ==
  IF options.prefixFn # "none"
  THEN IF prefixFnThrows(m)
       THEN [val |-> Undef,
             st |-> Throw(Logged(st, "prefixFn", m), PrefixFnError(m))]
       ELSE [val |-> prefixFn(m), st |-> Logged(st, "prefixFn", m)]
  ELSE getPrefixTableOnly(m, st)

getPrefix(m, st) ==
  LET prefix == IF m \in DOMAIN options.prefixMap
                THEN Str(options.prefixMap[m])
                ELSE Undef
  IN IF ~Truthy(prefix) /\ options.prefixFn # "none"
     THEN IF prefixFnThrows(m)
          THEN [val |-> Undef,
                st |-> Throw(Logged(st, "prefixFn", m), PrefixFnError(m))]
          ELSE [val |-> prefixFn(m), st |-> Logged(st, "prefixFn", m)]
     ELSE [val |-> prefix, st |-> st]

\* if (!prefix || prefix.length === 0) throw ...; return prefix, p being
\* what getPrefix answered
validPrefix(m, p) ==
  IF Failed(p.st)
  THEN [val |-> <<>>, st |-> p.st]
  ELSE IF ~Truthy(p.val) \/ Len(p.val.v) = 0
       THEN [val |-> <<>>, st |-> Throw(p.st, PrefixNotDefined(m))]
       ELSE [val |-> p.val.v, st |-> p.st]

ensurePrefixForModel(m, st) ==
  validPrefix(m, getPrefix(m, Logged(st, "resolve", m)))

\* models.find(m => m.name === name): the first match, or undefined
Find(items, name) ==
  IF items.t = "arr" /\ \E i \in 1..Len(items.v) : Get(items.v[i], kName) = Str(name)
  THEN items.v[CHOOSE i \in 1..Len(items.v) :
                 /\ Get(items.v[i], kName) = Str(name)
                 /\ \A j \in 1..(i - 1) : Get(items.v[j], kName) # Str(name)]
  ELSE Undef

\* x || []
OrEmptyArray(x) == IF Truthy(x) THEN x ELSE Arr(<<>>)

\* The related model's name from the client's DMMF, null without one
\* if (model && field && field.type && typeof field.type === "string")
\* return field.type, model and field being what the two finds answered
typeOfField(found, field) ==
  IF Truthy(found) /\ Truthy(field) /\ Truthy(Get(field, kType))
     /\ Get(field, kType).t = "str"
  THEN Get(field, kType)
  ELSE Null

\* model.fields.find(f => f.name === relationKey) of the model found
fieldOfModel(found, relationKey) ==
  typeOfField(found, Find(OrEmptyArray(Get(found, kFields)), relationKey))

getModelFromRelation(parentModel, relationKey, ctx) ==
  IF Truthy(Get(ctx, kClientVersion)) /\ Truthy(Get(ctx, kDmmf))
  THEN fieldOfModel(
         Find(OrEmptyArray(Get(Get(Get(ctx, kDmmf), kDatamodel), kModels)),
              parentModel),
         relationKey)
  ELSE Null

inferModelNameFromRelation(relationKey) ==
  IF Len(relationKey) = 0
  THEN relationKey
  ELSE LET capitalized == <<toUpperCase(relationKey[1])>> \o Tail(relationKey)
       IN IF relationKey = kItems \/ relationKey = kItem
          THEN mOrderItem
          ELSE IF relationKey = kAuthor
          THEN mUser
          ELSE IF endsWith(capitalized, <<"i","e","s">>) /\ Len(capitalized) > 3
          THEN SubSeq(capitalized, 1, Len(capitalized) - 3) \o <<"y">>
          ELSE IF endsWith(capitalized, <<"s">>) /\ Len(capitalized) > 1
          THEN SubSeq(capitalized, 1, Len(capitalized) - 1)
          ELSE capitalized

\* The attempt that takes "id" for the primary key of every model
nestedModelInfoIdField(modelName, st) ==
  LET p == ensurePrefixForModel(modelName, st)
  IN [modelName |-> modelName, prefix |-> p.val, primaryKeyField |-> kId,
      st |-> p.st]

\* One attempt of resolveNestedModelInfo's try block for modelName
modelInfo(modelName, pkField, p) ==
  [modelName |-> modelName, prefix |-> p.val, primaryKeyField |-> pkField,
   st |-> p.st]

nestedModelInfo(modelName, st) ==
  modelInfo(modelName, getPrimaryKeyField(modelName),
            ensurePrefixForModel(modelName, st))

\* The rewrite that types a nested record by its parent's model
resolveNestedModelInfoOfParent(relationKey, parentModel, ctx, st) ==
  nestedModelInfo(parentModel, st)

\* The catch block retrying OrderItem after any failed name
resolveNestedModelInfoRetryAll(relationKey, parentModel, ctx, st) ==
  LET fromDmmf == getModelFromRelation(parentModel, relationKey, ctx)
      modelName == IF Truthy(fromDmmf)
                   THEN fromDmmf.v
                   ELSE inferModelNameFromRelation(relationKey)
      first == nestedModelInfo(modelName, st)
  IN IF Failed(first.st)
     THEN nestedModelInfo(mOrderItem, [first.st EXCEPT !.err = NoError])
     ELSE first

\* getModelFromRelation(...) || inferModelNameFromRelation(relationKey)
relatedModelName(fromDmmf, relationKey) ==
  IF Truthy(fromDmmf)
  THEN fromDmmf.v
  ELSE inferModelNameFromRelation(relationKey)

\* catch { if (modelName === "Item") { retry as "OrderItem" } throw error },
\* first being what the try block came to
retryAsOrderItem(modelName, first) ==
  IF Failed(first.st) /\ modelName = mItem
  THEN nestedModelInfo(mOrderItem, [first.st EXCEPT !.err = NoError])
  ELSE first

\* The try block for modelName, then its catch
modelInfoWithRetry(modelName, st) ==
  retryAsOrderItem(modelName, nestedModelInfo(modelName, st))

resolveNestedModelInfo(relationKey, parentModel, ctx, st) ==
  modelInfoWithRetry(
    relatedModelName(getModelFromRelation(parentModel, relationKey, ctx),
                     relationKey),
    st)

-----------------------------------------------------------------------------
(* Sequencing: every step returns [val, st]; once st carries an exception the
   remaining steps are skipped and val is not used. *)

Return(x, st) == [val |-> x, st |-> st]

\* A step that threw
Raise(st) == [val |-> Undef, st |-> st]

\* Step r, then K on what it returned, unless r threw
Bind(r, K(_)) == IF Failed(r.st) THEN Raise(r.st) ELSE K(r)

\* The value of step r passed through F, unless r threw
Map(r, F(_)) ==
  IF Failed(r.st) THEN Raise(r.st) ELSE [val |-> F(r.val), st |-> r.st]

\* [x, ...rest]
Prepend(x, rest) == Map(rest, LAMBDA xs : <<x>> \o xs)

\* isJsonLike(x) ? withGeneratedId(x, prefix, primaryKeyField) : x, on the
\* value of step r
stampJsonLike(r, prefix, primaryKeyField) ==
  Bind(r, LAMBDA p :
    IF isJsonLike(p.val)
    THEN withGeneratedId(p.val, prefix, primaryKeyField, p.st)
    ELSE p)

-----------------------------------------------------------------------------
(* processNestedCreates *)

RECURSIVE processNestedCreates(_, _, _, _)
RECURSIVE mapProcess(_, _, _, _, _)
RECURSIVE processEntries(_, _, _, _, _, _)
RECURSIVE processEntry(_, _, _, _, _, _)
RECURSIVE nestedCreate(_, _, _, _, _, _)
RECURSIVE nestedCreateMany(_, _, _, _, _, _)
RECURSIVE createManyItems(_, _, _, _, _)
RECURSIVE createSide(_, _, _, _, _)
RECURSIVE createSideItems(_, _, _, _, _, _)
RECURSIVE nestedConnectOrCreate(_, _, _, _, _, _)
RECURSIVE nestedUpsert(_, _, _, _, _, _)

\* const processed = { ...data }: the loop over the entries of mapping data
\* begins
Visit(data, st) == Return(data, [st EXCEPT !.visited = Append(@, data)])

\* item !== null && item !== undefined
NotNullish(item) == item.t \notin {"null", "undef"}

\* items.map(item => isJsonLike(item) ? withGeneratedId(item, ...) : item),
\* from item n on
RECURSIVE stampItems(_, _, _, _, _)
stampItems(items, n, prefix, primaryKeyField, st) ==
  IF n > Len(items)
  THEN Return(<<>>, st)
  ELSE Bind(stampJsonLike(Return(items[n], st), prefix, primaryKeyField),
            LAMBDA w : Prepend(w.val, stampItems(items, n + 1, prefix,
                                                 primaryKeyField, w.st)))

\* items.map(item => processNestedCreates(item, parentModel, context)), from
\* item n on; a throw ends the map
mapProcess(items, n, parentModel, ctx, st) ==
  IF n > Len(items)
  THEN Return(<<>>, st)
  ELSE Bind(processNestedCreates(items[n], parentModel, ctx, st),
            LAMBDA r : Prepend(r.val, mapProcess(items, n + 1, parentModel,
                                                 ctx, r.st)))

\* if ("create" in value && typeof value.create === "object") { ... }
nestedCreate(key, value, processed, parentModel, ctx, st) ==
  Bind(resolveNestedModelInfo(key, parentModel, ctx, st), LAMBDA info :
    Map(Bind(processNestedCreates(Get(value, kCreate), info.modelName, ctx,
                                  info.st),
             LAMBDA p :
               IF IsArray(p.val)
               THEN Map(stampItems(p.val.v, 1, info.prefix,
                                   info.primaryKeyField, p.st), Arr)
               ELSE stampJsonLike(p, info.prefix, info.primaryKeyField)),
        LAMBDA create : Spread(processed, key, Spread(value, kCreate, create))))

\* nestedCreateManyData.filter(...).map(item => { process, then stamp }),
\* from item n of those that passed the filter on; a throw ends the map
createManyItems(items, n, info, ctx, st) ==
  IF n > Len(items)
  THEN Return(<<>>, st)
  ELSE Bind(stampJsonLike(processNestedCreates(items[n], info.modelName, ctx,
                                               st),
                          info.prefix, info.primaryKeyField),
            LAMBDA w : Prepend(w.val, createManyItems(items, n + 1, info, ctx,
                                                      w.st)))

\* if ("createMany" in value && value.createMany && ... "data" in it) { ... }
nestedCreateMany(key, value, processed, parentModel, ctx, st) ==
  Bind(resolveNestedModelInfo(key, parentModel, ctx, st), LAMBDA info :
    LET nestedCreateManyData == Get(Get(value, kCreateMany), kData)
    IN IF IsArray(nestedCreateManyData)
       THEN Map(createManyItems(SelectSeq(nestedCreateManyData.v, NotNullish),
                                1, info, ctx, info.st),
                LAMBDA processedData :
                  Spread(processed, key,
                    Spread(value, kCreateMany,
                      Spread(Get(value, kCreateMany), kData,
                             Arr(processedData)))))
       ELSE Return(processed, info.st))

\* One connectOrCreate or upsert entry: when it has a create key, resolve the
\* model, process the create payload and stamp it if it is a mapping.
createSide(item, key, parentModel, ctx, st) ==
  IF Truthy(item) /\ TypeofObject(item) /\ HasKey(item, kCreate)
  THEN Bind(resolveNestedModelInfo(key, parentModel, ctx, st), LAMBDA info :
         Bind(processNestedCreates(Get(item, kCreate), info.modelName, ctx,
                                   info.st),
              LAMBDA p :
                IF isJsonLike(p.val)
                THEN Map(withGeneratedId(p.val, info.prefix,
                                         info.primaryKeyField, p.st),
                         LAMBDA create : Spread(item, kCreate, create))
                ELSE Return(item, p.st)))
  ELSE Return(item, st)

\* entries.map(item => createSide(item)), from entry n on; a throw ends
\* the map
createSideItems(items, n, key, parentModel, ctx, st) ==
  IF n > Len(items)
  THEN Return(<<>>, st)
  ELSE Bind(createSide(items[n], key, parentModel, ctx, st),
            LAMBDA r : Prepend(r.val, createSideItems(items, n + 1, key,
                                                      parentModel, ctx, r.st)))

\* if ("connectOrCreate" in value && typeof value.connectOrCreate === "object")
nestedConnectOrCreate(key, value, processed, parentModel, ctx, st) ==
  LET connectOrCreateValue == Get(value, kConnectOrCreate)
  IN Map(IF IsArray(connectOrCreateValue)
         THEN Map(createSideItems(connectOrCreateValue.v, 1, key, parentModel,
                                  ctx, st), Arr)
         ELSE createSide(connectOrCreateValue, key, parentModel, ctx, st),
         LAMBDA entries :
           Spread(processed, key, Spread(value, kConnectOrCreate, entries)))

\* if ("upsert" in value && typeof value.upsert === "object") { ... }: the
\* create side of each entry; the update side is copied by the spread
nestedUpsert(key, value, processed, parentModel, ctx, st) ==
  LET upsertValue == Get(value, kUpsert)
  IN Map(IF IsArray(upsertValue)
         THEN Map(createSideItems(upsertValue.v, 1, key, parentModel, ctx,
                                  st), Arr)
         ELSE createSide(upsertValue, key, parentModel, ctx, st),
         LAMBDA entries : Spread(processed, key, Spread(value, kUpsert, entries)))

\* Which branch of the loop body takes the entry's value: the first of the
\* tests that passes, each branch ending in `continue`
entryBranch(value) ==
  IF ~Truthy(value) \/ ~TypeofObject(value)
  THEN "continue"
  ELSE IF IsArray(value)
  THEN "array"
  ELSE IF HasKey(value, kCreate) /\ TypeofObject(Get(value, kCreate))
  THEN "create"
  ELSE IF /\ HasKey(value, kCreateMany)
          /\ Truthy(Get(value, kCreateMany))
          /\ TypeofObject(Get(value, kCreateMany))
          /\ HasKey(Get(value, kCreateMany), kData)
  THEN "createMany"
  ELSE IF /\ HasKey(value, kConnectOrCreate)
          /\ TypeofObject(Get(value, kConnectOrCreate))
  THEN "connectOrCreate"
  ELSE IF HasKey(value, kUpsert) /\ TypeofObject(Get(value, kUpsert))
  THEN "upsert"
  ELSE "object"

\* processed[key] = processNestedCreates(value, parentModelName, context)
nestedObject(key, value, processed, parentModel, ctx, st) ==
  Map(processNestedCreates(value, parentModel, ctx, st),
      LAMBDA x : Spread(processed, key, x))

\* processed[key] = value.map(item => processNestedCreates(item, ...))
nestedArray(key, value, processed, parentModel, ctx, st) ==
  Map(mapProcess(value.v, 1, parentModel, ctx, st),
      LAMBDA xs : Spread(processed, key, Arr(xs)))

\* The loop body with the `continue` of the create branch left out: the value
\* falls through to the recursion of the last line
processEntryFallThrough(key, value, processed, parentModel, ctx, st) ==
  CASE entryBranch(value) = "continue" -> Return(processed, st)
    [] entryBranch(value) = "array" ->
         nestedArray(key, value, processed, parentModel, ctx, st)
    [] entryBranch(value) = "create" ->
         Bind(nestedCreate(key, value, processed, parentModel, ctx, st),
              LAMBDA prev : nestedObject(key, Get(prev.val, key), prev.val,
                                         parentModel, ctx, prev.st))
    [] entryBranch(value) = "createMany" ->
         nestedCreateMany(key, value, processed, parentModel, ctx, st)
    [] entryBranch(value) = "connectOrCreate" ->
         nestedConnectOrCreate(key, value, processed, parentModel, ctx, st)
    [] entryBranch(value) = "upsert" ->
         nestedUpsert(key, value, processed, parentModel, ctx, st)
    [] OTHER -> nestedObject(key, value, processed, parentModel, ctx, st)

\* The body of: for (const [key, value] of Object.entries(processed))
processEntry(key, value, processed, parentModel, ctx, st) ==
  CASE entryBranch(value) = "continue" -> Return(processed, st)
    [] entryBranch(value) = "array" ->
         nestedArray(key, value, processed, parentModel, ctx, st)
    [] entryBranch(value) = "create" ->
         nestedCreate(key, value, processed, parentModel, ctx, st)
    [] entryBranch(value) = "createMany" ->
         nestedCreateMany(key, value, processed, parentModel, ctx, st)
    [] entryBranch(value) = "connectOrCreate" ->
         nestedConnectOrCreate(key, value, processed, parentModel, ctx, st)
    [] entryBranch(value) = "upsert" ->
         nestedUpsert(key, value, processed, parentModel, ctx, st)
    [] OTHER -> nestedObject(key, value, processed, parentModel, ctx, st)

\* The loop over Object.entries(data), through its first n entries;
\* processed starts as { ...data }
processEntries(entries, n, data, parentModel, ctx, st) ==
  IF n = 0
  THEN Visit(data, st)
  ELSE Bind(processEntries(entries, n - 1, data, parentModel, ctx, st),
            LAMBDA prev : processEntry(entries[n].k, entries[n].v, prev.val,
                                       parentModel, ctx, prev.st))

processNestedCreates(data, parentModel, ctx, st) ==
  IF ~Truthy(data) \/ ~TypeofObject(data)
  THEN Return(data, st)
  ELSE IF IsArray(data)
  THEN Map(mapProcess(data.v, 1, parentModel, ctx, st), Arr)
  ELSE processEntries(data.v, Len(data.v), data, parentModel, ctx, st)

-----------------------------------------------------------------------------
(* query.$allModels: each handler returns [args, st, queried]: the caller's
   args object when the handler returns or throws, the effects, and whether
   query(args) was called. *)

Outcome(a, st, q) == [args |-> a, st |-> st, queried |-> q]

\* Assign with query(args) called before args[key] is written
AssignAfterQuery(a, key, d, q) ==
  IF Failed(d.st)
  THEN Outcome(a, d.st, FALSE)
  ELSE Outcome(a, d.st, q)

\* args[key] = the value of step d, then q says whether query(args) follows;
\* when d threw, args is left as it was
Assign(a, key, d, q) ==
  IF Failed(d.st)
  THEN Outcome(a, d.st, FALSE)
  ELSE Outcome(Spread(a, key, d.val), d.st, q)

\* rewriteRoot with the processNestedCreates option read as always on
rewriteRootNested(data, m, prefix, pkField, ctx, st) ==
  Bind(stampJsonLike(Return(data, st), prefix, pkField), LAMBDA w :
    stampJsonLike(processNestedCreates(w.val, m, ctx, w.st), prefix, pkField))

\* The data of create, and of upsert's create portion: stamp, process the
\* nested creates if enabled, stamp again.
rewriteRoot(data, m, prefix, pkField, ctx, st) ==
  IF options.processNestedCreates
  THEN Bind(stampJsonLike(Return(data, st), prefix, pkField), LAMBDA w :
         stampJsonLike(processNestedCreates(w.val, m, ctx, w.st), prefix,
                       pkField))
  ELSE stampJsonLike(Return(data, st), prefix, pkField)

create(m, a, ctx) ==
  LET r == ensurePrefixForModel(m, NoEffects)
      pkField == getPrimaryKeyField(m)
      currentData == Get(a, kData)
  IN IF Failed(r.st)
     THEN Outcome(a, r.st, FALSE)
     ELSE IF currentData.t \in {"undef", "null"}
     THEN Outcome(a, r.st, TRUE)
     ELSE Assign(a, kData, rewriteRoot(currentData, m, r.val, pkField, ctx,
                                       r.st), TRUE)

\* currentData.filter(...).map(item => { stamp, process, stamp }), from
\* item n of those that passed the filter on; a throw ends the map
RECURSIVE batchItems(_, _, _, _, _, _, _)
batchItems(items, n, m, prefix, pkField, ctx, st) ==
  IF n > Len(items)
  THEN Return(<<>>, st)
  ELSE Bind(rewriteRoot(items[n], m, prefix, pkField, ctx, st),
            LAMBDA r : Prepend(r.val, batchItems(items, n + 1, m, prefix,
                                                 pkField, ctx, r.st)))

\* The body shared, line for line, by createMany and createManyAndReturn
rewriteBatch(m, a, ctx) ==
  LET r == ensurePrefixForModel(m, NoEffects)
      pkField == getPrimaryKeyField(m)
      currentData == Get(a, kData)
  IN IF Failed(r.st)
     THEN Outcome(a, r.st, FALSE)
     ELSE IF currentData.t \in {"undef", "null"}
     THEN Outcome(a, r.st, TRUE)
     ELSE IF IsArray(currentData)
     THEN Assign(a, kData,
                 Map(batchItems(SelectSeq(currentData.v, NotNullish), 1, m,
                                r.val, pkField, ctx, r.st), Arr),
                 TRUE)
     ELSE IF options.processNestedCreates
     THEN Assign(a, kData,
                 stampJsonLike(processNestedCreates(currentData, m, ctx, r.st),
                               r.val, pkField),
                 TRUE)
     ELSE Assign(a, kData, Return(currentData, r.st), TRUE)

createMany(m, a, ctx) == rewriteBatch(m, a, ctx)

createManyAndReturn(m, a, ctx) == rewriteBatch(m, a, ctx)

\* if (args.create) { ...; args.create = createData }
upsertCreate(m, a, prefix, pkField, ctx, st) ==
  IF Truthy(Get(a, kCreate))
  THEN Assign(a, kCreate,
              rewriteRoot(Get(a, kCreate), m, prefix, pkField, ctx, st),
              FALSE)
  ELSE Outcome(a, st, FALSE)

\* if (shouldProcessNestedCreates && args.update) { args.update = ... };
\* return query(args): c is how the create portion left args
upsertUpdate(m, c, ctx) ==
  IF Failed(c.st)
  THEN c
  ELSE IF options.processNestedCreates /\ Truthy(Get(c.args, kUpdate))
  THEN Assign(c.args, kUpdate,
              processNestedCreates(Get(c.args, kUpdate), m, ctx, c.st), TRUE)
  ELSE Outcome(c.args, c.st, TRUE)

upsert(m, a, ctx) ==
  LET r == ensurePrefixForModel(m, NoEffects)
      pkField == getPrimaryKeyField(m)
  IN IF Failed(r.st)
     THEN Outcome(a, r.st, FALSE)
     ELSE upsertUpdate(m, upsertCreate(m, a, r.val, pkField, ctx, r.st), ctx)

-----------------------------------------------------------------------------
(* src/src/prisma-extension.ts: the create and createMany handlers that set
   the id on the object they are given. Each returns [args, st, queried,
   caller]: caller is the data object or array the caller passed in, as it
   reads when the handler returns or throws. *)

InPlaceOutcome(a, st, q, data) ==
  [args |-> a, st |-> st, queried |-> q, caller |-> data]

\* key.charAt(0).toUpperCase() + key.slice(1), less one trailing "s"
inferInPlace(key) ==
  IF Len(key) = 0
  THEN key
  ELSE LET modelName == <<toUpperCase(key[1])>> \o Tail(key)
       IN IF endsWith(modelName, <<"s">>) /\ Len(modelName) > 1
          THEN SubSeq(modelName, 1, Len(modelName) - 1)
          ELSE modelName

\* value.id = generateKSUID(prefix): the write goes into value itself
setId(value, prefix, st) ==
  LET g == generateKSUID(prefix, st)
  IN [val |-> Spread(value, kId, g.val), st |-> g.st]

\* if (!item.id || item.id === "") { item.id = generateKSUID(prefix) }
\* Reading id of null or undefined throws, and so does, in strict mode,
\* writing it on a string or a number; an array takes it as a property.
setIdIfFalsy(item, prefix, st) ==
  CASE item.t = "obj" ->
         IF ~Truthy(Get(item, kId))
         THEN setId(item, prefix, st)
         ELSE Return(item, st)
    [] item.t = "arr" -> Return(item, st)
    [] OTHER -> Raise(Throw(st, TypeError))

RECURSIVE setIdItems(_, _, _, _)
\* processedNestedData.forEach(item => { ... item.id = ... }), from item n on
setIdItems(items, n, prefix, st) ==
  IF n > Len(items)
  THEN Return(<<>>, st)
  ELSE Bind(setIdIfFalsy(items[n], prefix, st),
            LAMBDA w : Prepend(w.val, setIdItems(items, n + 1, prefix, w.st)))

RECURSIVE processNestedCreatesInPlace(_, _, _)
RECURSIVE mapInPlace(_, _, _, _)
RECURSIVE createManyDataInPlace(_, _, _, _, _)
RECURSIVE entriesInPlace(_, _, _, _, _)
RECURSIVE entryInPlace(_, _, _, _, _)

\* data.map(item => processNestedCreates(item, parentModel)), from item n on
mapInPlace(items, n, parentModel, st) ==
  IF n > Len(items)
  THEN Return(<<>>, st)
  ELSE Bind(processNestedCreatesInPlace(items[n], parentModel, st),
            LAMBDA r : Prepend(r.val, mapInPlace(items, n + 1, parentModel,
                                                 r.st)))

\* nestedCreateManyData.map(item => { process, then set the id }), from item
\* n on
createManyDataInPlace(items, n, modelName, prefix, st) ==
  IF n > Len(items)
  THEN Return(<<>>, st)
  ELSE Bind(Bind(processNestedCreatesInPlace(items[n], modelName, st),
                 LAMBDA p : setIdIfFalsy(p.val, prefix, p.st)),
            LAMBDA w : Prepend(w.val, createManyDataInPlace(
                                        items, n + 1, modelName, prefix, w.st)))

\* The body of: for (const [key, value] of Object.entries(processed))
entryInPlace(key, value, processed, parentModel, st) ==
  IF ~(Truthy(value) /\ TypeofObject(value))
  THEN Return(processed, st)
  ELSE IF HasKey(value, kCreate) /\ TypeofObject(Get(value, kCreate))
  THEN Bind(getPrefix(inferInPlace(key), st), LAMBDA prefix :
         IF Truthy(prefix.val)
         THEN Map(Bind(processNestedCreatesInPlace(Get(value, kCreate),
                                                   inferInPlace(key),
                                                   prefix.st),
                       LAMBDA d :
                         IF IsArray(d.val)
                         THEN Map(setIdItems(d.val.v, 1, prefix.val.v, d.st),
                                  Arr)
                         ELSE setIdIfFalsy(d.val, prefix.val.v, d.st)),
                  LAMBDA x : Spread(processed, key, Spread(value, kCreate, x)))
         ELSE Return(processed, prefix.st))
  ELSE IF /\ HasKey(value, kCreateMany)
          /\ Truthy(Get(value, kCreateMany))
          /\ TypeofObject(Get(value, kCreateMany))
          /\ HasKey(Get(value, kCreateMany), kData)
  THEN Bind(getPrefix(inferInPlace(key), st), LAMBDA prefix :
         IF Truthy(prefix.val) /\ IsArray(Get(Get(value, kCreateMany), kData))
         THEN Map(createManyDataInPlace(
                    Get(Get(value, kCreateMany), kData).v, 1,
                    inferInPlace(key), prefix.val.v, prefix.st),
                  LAMBDA xs :
                    Spread(processed, key,
                           Spread(value, kCreateMany,
                                  Spread(Get(value, kCreateMany), kData,
                                         Arr(xs)))))
         ELSE Return(processed, prefix.st))
  ELSE Map(processNestedCreatesInPlace(value, parentModel, st),
           LAMBDA x : Spread(processed, key, x))

\* The loop over Object.entries(processed), through its first n entries
entriesInPlace(entries, n, data, parentModel, st) ==
  IF n = 0
  THEN Visit(data, st)
  ELSE Bind(entriesInPlace(entries, n - 1, data, parentModel, st),
            LAMBDA prev : entryInPlace(entries[n].k, entries[n].v, prev.val,
                                       parentModel, prev.st))

processNestedCreatesInPlace(data, parentModel, st) ==
  IF ~Truthy(data) \/ ~TypeofObject(data)
  THEN Return(data, st)
  ELSE IF IsArray(data)
  THEN Map(mapInPlace(data.v, 1, parentModel, st), Arr)
  ELSE entriesInPlace(data.v, Len(data.v), data, parentModel, st)

\* if (shouldProcessNestedCreates) { args.data = processNestedCreates(...) }
\* return query(args), w being the data object after the root's id was set
forwardInPlace(m, a, w) ==
  IF Failed(w.st)
  THEN InPlaceOutcome(a, w.st, FALSE, Get(a, kData))
  ELSE IF options.processNestedCreates
  THEN LET d == processNestedCreatesInPlace(w.val, m, w.st)
       IN IF Failed(d.st)
          THEN InPlaceOutcome(Spread(a, kData, w.val), d.st, FALSE, w.val)
          ELSE InPlaceOutcome(Spread(a, kData, d.val), d.st, TRUE, w.val)
  ELSE InPlaceOutcome(IF HasKey(a, kData) THEN Spread(a, kData, w.val) ELSE a,
                      w.st, TRUE, w.val)

createInPlace(m, a) ==
  LET r == ensurePrefixForModel(m, NoEffects)
      data == Get(a, kData)
  IN IF Failed(r.st)
     THEN InPlaceOutcome(a, r.st, FALSE, data)
     ELSE IF TypeofObject(data) /\ ~IsArray(data)
     THEN IF data.t = "null"
          THEN forwardInPlace(m, a, Raise(Throw(r.st, TypeError)))
          ELSE IF ~Truthy(Get(data, kId))
          THEN forwardInPlace(m, a, setId(data, r.val, r.st))
          ELSE forwardInPlace(m, a, Return(data, r.st))
     ELSE forwardInPlace(m, a, Return(data, r.st))

\* One more element of the array map builds (val) and of the array the
\* caller passed in (caller)
ConsInPlace(x, item, rest) ==
  [val |-> <<x>> \o rest.val, caller |-> <<item>> \o rest.caller,
   st |-> rest.st]

RECURSIVE batchInPlace(_, _, _, _, _)
RECURSIVE batchItemInPlace(_, _, _, _, _)

\* args.data.map(item => { set the id on item; process a copy of it if
\* enabled }), from item n on; a throw ends the map
batchInPlace(items, n, m, prefix, st) ==
  IF n > Len(items)
  THEN [val |-> <<>>, caller |-> <<>>, st |-> st]
  ELSE batchItemInPlace(
         items, n, m, prefix,
         IF /\ Truthy(items[n]) /\ TypeofObject(items[n])
            /\ ~IsArray(items[n]) /\ isMissingId(items[n], kId)
         THEN setId(items[n], prefix, st)
         ELSE Return(items[n], st))

\* w: item n after its id was set
batchItemInPlace(items, n, m, prefix, w) ==
  IF options.processNestedCreates
  THEN LET p == processNestedCreatesInPlace(w.val, m, w.st)
       IN IF Failed(p.st)
          THEN [val |-> <<>>,
                caller |-> <<w.val>> \o SubSeq(items, n + 1, Len(items)),
                st |-> p.st]
          ELSE ConsInPlace(p.val, w.val,
                           batchInPlace(items, n + 1, m, prefix, p.st))
  ELSE ConsInPlace(w.val, w.val, batchInPlace(items, n + 1, m, prefix, w.st))

createManyInPlace(m, a) ==
  LET r == ensurePrefixForModel(m, NoEffects)
      data == Get(a, kData)
  IN IF Failed(r.st)
     THEN InPlaceOutcome(a, r.st, FALSE, data)
     ELSE IF IsArray(data)
     THEN LET b == batchInPlace(data.v, 1, m, r.val, r.st)
          IN IF Failed(b.st)
             THEN InPlaceOutcome(Spread(a, kData, Arr(b.caller)), b.st, FALSE,
                                 Arr(b.caller))
             ELSE InPlaceOutcome(Spread(a, kData, Arr(b.val)), b.st, TRUE,
                                 Arr(b.caller))
     ELSE InPlaceOutcome(a, r.st, TRUE, data)

-----------------------------------------------------------------------------
(* src/unnamed/part_009: the middleware createKsuidMiddleware returns,
   (params, next) => ..., with params = { model, action, args }. Its
   getPrefix and processNestedCreates read as those of
   src/src/prisma-extension.ts. Each run returns [args, st, queried]: args
   is the params object as it reads when the middleware calls next(params)
   or throws. *)

kModel == <<"m","o","d","e","l">>

kAction == <<"a","c","t","i","o","n">>

kArgs == <<"a","r","g","s">>

\* params with params.args.data reading d
WithData(params, d) ==
  Spread(params, kArgs, Spread(Get(params, kArgs), kData, d))

\* if (typeof data === "object" && !Array.isArray(data) &&
\*     (!data.id || data.id === "")) { data.id = generateKSUID(prefix) }
middlewareRootId(data, prefix, st) ==
  IF TypeofObject(data) /\ ~IsArray(data) /\ ~Truthy(Get(data, kId))
  THEN setId(data, prefix, st)
  ELSE Return(data, st)

\* The create block, then next(params)
middlewareCreate(params, m, prefix, st) ==
  LET w == middlewareRootId(Get(Get(params, kArgs), kData), prefix, st)
  IN IF options.processNestedCreates
     THEN LET d == processNestedCreatesInPlace(w.val, m, w.st)
          IN IF Failed(d.st)
             THEN Outcome(WithData(params, w.val), d.st, FALSE)
             ELSE Outcome(WithData(params, d.val), d.st, TRUE)
     ELSE Outcome(WithData(params, w.val), w.st, TRUE)

RECURSIVE middlewareBatch(_, _, _, _, _)
RECURSIVE middlewareBatchItem(_, _, _, _, _)

\* params.args.data.map(item => { set the id on item; process a copy of it
\* if enabled }), from item n on; a throw ends the map
middlewareBatch(items, n, m, prefix, st) ==
  IF n > Len(items)
  THEN [val |-> <<>>, caller |-> <<>>, st |-> st]
  ELSE middlewareBatchItem(
         items, n, m, prefix,
         IF /\ Truthy(items[n]) /\ TypeofObject(items[n])
            /\ ~IsArray(items[n]) /\ ~Truthy(Get(items[n], kId))
         THEN setId(items[n], prefix, st)
         ELSE Return(items[n], st))

\* w: item n after its id was set
middlewareBatchItem(items, n, m, prefix, w) ==
  IF options.processNestedCreates
  THEN LET p == processNestedCreatesInPlace(w.val, m, w.st)
       IN IF Failed(p.st)
          THEN [val |-> <<>>,
                caller |-> <<w.val>> \o SubSeq(items, n + 1, Len(items)),
                st |-> p.st]
          ELSE ConsInPlace(p.val, w.val,
                           middlewareBatch(items, n + 1, m, prefix, p.st))
  ELSE ConsInPlace(w.val, w.val,
                   middlewareBatch(items, n + 1, m, prefix, w.st))

\* The createMany block, then next(params)
middlewareCreateMany(params, m, prefix, st) ==
  LET b == middlewareBatch(Get(Get(params, kArgs), kData).v, 1, m, prefix, st)
  IN IF Failed(b.st)
     THEN Outcome(WithData(params, Arr(b.caller)), b.st, FALSE)
     ELSE Outcome(WithData(params, Arr(b.val)), b.st, TRUE)

\* The blocks after the prefix was found, r being its resolution
middlewareBlocks(params, m, r) ==
  IF Failed(r.st)
  THEN Outcome(params, r.st, FALSE)
  ELSE IF /\ Get(params, kAction) = Str(<<"c","r","e","a","t","e">>)
          /\ Truthy(Get(Get(params, kArgs), kData))
  THEN middlewareCreate(params, m, r.val, r.st)
  ELSE IF /\ Get(params, kAction) = Str(<<"c","r","e","a","t","e","M","a","n","y">>)
          /\ IsArray(Get(Get(params, kArgs), kData))
  THEN middlewareCreateMany(params, m, r.val, r.st)
  ELSE Outcome(params, r.st, TRUE)

\* async (params, next) => { ... return next(params) }
middleware(params) ==
  IF ~Truthy(params) \/ ~Truthy(Get(params, kArgs))
  THEN Outcome(params, NoEffects, TRUE)
  ELSE IF ~Truthy(Get(params, kModel))
  THEN Outcome(params, NoEffects, TRUE)
  ELSE middlewareBlocks(params, Get(params, kModel).v,
                        ensurePrefixForModel(Get(params, kModel).v, NoEffects))

-----------------------------------------------------------------------------
(* The configurations and payloads the model runs the handlers on *)

\* Objects per batch array
MaxBatch == 2

\* Nesting depth of creation markers below the root
MaxDepth == 2

kProfile == <<"p","r","o","f","i","l","e">>

kPosts == <<"p","o","s","t","s">>

kMeta == <<"m","e","t","a">>

kList == <<"l","i","s","t">>

mProfile == <<"P","r","o","f","i","l","e">>

mPost == <<"P","o","s","t">>

mWidget == <<"W","i","d","g","e","t">>

usr_ == <<"u","s","r","_">>

prof_ == <<"p","r","o","f","_">>

post_ == <<"p","o","s","t","_">>

kept == Str(<<"k","e","e","p","_","m","e">>)

kUid == <<"u","i","d">>

FullMap == (mUser :> usr_) @@ (mProfile :> prof_) @@ (mPost :> post_)

Config(map, fn, nested, pk) ==
  [prefixMap |-> map, prefixFn |-> fn, processNestedCreates |-> nested,
   primaryKeyField |-> pk]

PkId == [fn |-> FALSE, name |-> kId, special |-> (mProfile :> kId)]

PkPerModel == [fn |-> TRUE, name |-> kId, special |-> (mProfile :> kUid)]

Configs ==
  { Config(FullMap, "none", TRUE, PkId),
    Config(FullMap, "none", FALSE, PkId),
    Config(FullMap, "none", TRUE, PkPerModel),
    Config((mUser :> usr_), "none", TRUE, PkId),
    Config((mUser :> usr_), "none", FALSE, PkId),
    Config((mUser :> usr_) @@ (mProfile :> prof_), "none", TRUE, PkId),
    Config((mUser :> <<>>) @@ (mProfile :> prof_), "suffix", TRUE, PkId),
    Config((mUser :> <<>>) @@ (mProfile :> prof_), "none", TRUE, PkId),
    Config((mUser :> <<>>) @@ (mProfile :> prof_), "empty", TRUE, PkId),
    Config((mUser :> <<>>) @@ (mProfile :> prof_), "null", TRUE, PkId),
    Config((mUser :> <<>>) @@ (mProfile :> prof_), "undef", FALSE, PkId),
    Config((mUser :> usr_), "throws", TRUE, PkId),
    Config((mUser :> usr_), "throwsItem", TRUE, PkId),
    Config((mProfile :> prof_), "throws", TRUE, PkId),
    Config((mUser :> usr_) @@ (mOrderItem :> <<"o","i","_">>), "none", TRUE,
           PkId) }

\* The rest of the callback's arguments: without and with the client's DMMF
PlainContext == Obj(<<>>)

DmmfField(name, type) ==
  Obj(<<Entry(kName, Str(name)), Entry(kType, Str(type))>>)

DmmfContext ==
  Obj(<<Entry(kClientVersion, Str(<<"6">>)),
        Entry(kDmmf, Obj(<<Entry(kDatamodel, Obj(<<Entry(kModels, Arr(<<
          Obj(<<Entry(kName, Str(mUser)),
                Entry(kFields, Arr(<<DmmfField(kProfile, mProfile),
                                     DmmfField(kPosts, mPost)>>))>>)
        >>))>>))>>))>>)

Contexts == {PlainContext, DmmfContext}

IdVariants == {"absent", "null", "undef", "empty", "kept", "zero", "uid"}

InnerIdVariants == {"absent", "null", "empty", "kept", "uid"}

SpineIdVariants == {"absent", "kept"}

IdEntry(variant) ==
  CASE variant = "absent" -> <<>>
    [] variant = "null" -> <<Entry(kId, Null)>>
    [] variant = "undef" -> <<Entry(kId, Undef)>>
    [] variant = "empty" -> <<Entry(kId, Str(<<>>))>>
    [] variant = "kept" -> <<Entry(kId, kept)>>
    [] variant = "uid" -> <<Entry(kUid, kept)>>
    [] OTHER -> <<Entry(kId, Num(0))>>

NameA == Entry(kName, Str(<<"a">>))

NameB == Entry(kName, Str(<<"b">>))

Leaf(variant) == Obj(<<NameA>> \o IdEntry(variant))

WithRelation(variant, e) == Obj(<<NameA>> \o IdEntry(variant) \o <<e>>)

Where == Obj(<<NameA>>)

\* c followed by leaves, MaxBatch objects in all
BatchOf(c) ==
  [i \in 1..MaxBatch |->
     IF i = 1 THEN c ELSE IF i % 2 = 0 THEN Leaf("absent") ELSE Leaf("kept")]

\* The same with a null before and an undefined after the first object
BatchWithNulls(c) ==
  <<Null, c, Undef>> \o SubSeq(BatchOf(c), 2, MaxBatch)

CreateSideOf(c) == Obj(<<Entry(kWhere, Where), Entry(kCreate, c)>>)

UpsertOf(c, update) ==
  Obj(<<Entry(kWhere, Where), Entry(kCreate, c), Entry(kUpdate, update)>>)

\* An update payload that itself holds a nested create
UpdateWithCreate ==
  Obj(<<NameB, Entry(kPosts, Obj(<<Entry(kCreate, Leaf("absent"))>>))>>)

\* The relation entries with one creation marker each, around the payload c
SpineShapes(c) ==
  { Entry(kProfile, Obj(<<Entry(kCreate, c)>>)),
    Entry(kPosts, Obj(<<Entry(kCreateMany,
                            Obj(<<Entry(kData, Arr(BatchWithNulls(c)))>>))>>)),
    Entry(kProfile, Obj(<<Entry(kConnectOrCreate, CreateSideOf(c))>>)) }

SingleMarkerShapes(c) ==
  SpineShapes(c) \cup
  { Entry(kPosts, Obj(<<Entry(kCreate, Arr(BatchOf(c)))>>)),
    Entry(kPosts, Obj(<<Entry(kConnectOrCreate,
      Arr([i \in 1..MaxBatch |-> CreateSideOf(BatchOf(c)[i])]))>>)),
    Entry(kProfile, Obj(<<Entry(kUpsert, UpsertOf(c, Obj(<<NameB>>)))>>)),
    Entry(kProfile, Obj(<<Entry(kUpsert, UpsertOf(c, UpdateWithCreate))>>)),
    Entry(kPosts, Obj(<<Entry(kUpsert,
      Arr([i \in 1..MaxBatch |-> UpsertOf(BatchOf(c)[i], Obj(<<NameB>>))]))>>)),
    Entry(kMeta, Obj(<<Entry(kProfile, Obj(<<Entry(kCreate, c)>>))>>)),
    Entry(kList, Arr(<<Obj(<<Entry(kPosts, Obj(<<Entry(kCreate, c)>>))>>)>>)) }

\* Relation values that carry two creation markers at once
MultiMarkerShapes(c) ==
  { Entry(kPosts, Obj(<<Entry(kCreate, Leaf("kept")),
                        Entry(kConnectOrCreate, CreateSideOf(c))>>)),
    Entry(kPosts, Obj(<<Entry(kCreate, c),
                        Entry(kCreateMany,
                          Obj(<<Entry(kData, Arr(BatchWithNulls(c)))>>))>>)),
    Entry(kProfile, Obj(<<Entry(kConnectOrCreate, CreateSideOf(c)),
                          Entry(kUpsert, UpsertOf(c, Obj(<<NameB>>)))>>)) }

\* A relation value with a mapping beside its creation marker, the mapping
\* holding a relation of its own
BesideMarkerShapes(c) ==
  { Entry(kPosts, Obj(<<Entry(kCreate, c),
                        Entry(kMeta, Obj(<<Entry(kProfile,
                          Obj(<<Entry(kCreate, Leaf("absent"))>>))>>))>>)) }

Shapes(c) == SingleMarkerShapes(c) \cup MultiMarkerShapes(c)

RECURSIVE SpineAt(_)
SpineAt(d) ==
  IF d = 0
  THEN {Leaf(v) : v \in SpineIdVariants}
  ELSE UNION {{WithRelation("absent", e) : e \in SpineShapes(c)} :
                c \in SpineAt(d - 1)}

Leaves == {Leaf(v) : v \in IdVariants}

\* Two relation fields side by side: profile first, then a second relation
Siblings ==
  UNION {{Obj(<<NameA, Entry(kProfile, Obj(<<Entry(kCreate, Leaf("absent"))>>)),
                e>>) :
            e \in {x \in Shapes(c) : x.k # kProfile}} : c \in SpineAt(0)}

\* A relation whose inferred type is Item, around a single create
ItemPayloads ==
  {WithRelation("absent", Entry(kItemsField, Obj(<<Entry(kCreate, Leaf(v))>>))) :
     v \in SpineIdVariants}

Payloads ==
  Leaves
  \cup ItemPayloads
  \cup UNION {{WithRelation(v, e) : v \in SpineIdVariants, e \in Shapes(Leaf(w))} :
                w \in InnerIdVariants}
  \cup UNION {UNION {{WithRelation("absent", e) : e \in Shapes(c)} :
                       c \in SpineAt(d)} : d \in 1..(MaxDepth - 1)}
  \cup Siblings
  \cup {WithRelation("absent", e) : e \in BesideMarkerShapes(Leaf("absent"))}

SmallPayloads ==
  Leaves \cup UNION {{WithRelation("absent", e) : e \in SpineShapes(c)} :
                       c \in SpineAt(0)}

CreateArgs ==
  {Obj(<<Entry(kData, d)>>) : d \in Payloads \cup {Null}} \cup {Obj(<<>>)}

BatchArgs ==
  {Obj(<<Entry(kData, Arr(BatchWithNulls(d)))>>) : d \in SmallPayloads}
  \cup {Obj(<<Entry(kData, Arr(BatchOf(d)))>>) : d \in SmallPayloads}
  \cup {Obj(<<Entry(kData, d)>>) : d \in SpineAt(0) \cup SpineAt(1) \cup {Null}}
  \cup {Obj(<<>>)}

Updates ==
  {Obj(<<NameB>>)}
  \cup UNION {{Obj(<<NameB, e>>) : e \in Shapes(c)} : c \in SpineAt(0)}

UpsertArgs ==
  {Obj(<<Entry(kWhere, Where), Entry(kCreate, c), Entry(kUpdate, u)>>) :
     c \in SmallPayloads, u \in {Obj(<<NameB>>), UpdateWithCreate}}
  \cup {Obj(<<Entry(kWhere, Where), Entry(kCreate, c), Entry(kUpdate, u)>>) :
          c \in SpineAt(0), u \in Updates}
  \cup {Obj(<<Entry(kWhere, Where), Entry(kUpdate, UpdateWithCreate)>>),
        Obj(<<Entry(kWhere, Where), Entry(kCreate, Leaf("absent"))>>)}

ArgsOf(o) ==
  CASE o = "create" -> CreateArgs
    [] o = "upsert" -> UpsertArgs
    [] OTHER -> BatchArgs

\* The arguments used with the model that has no entry in any prefix table
WidgetArgs ==
  {Obj(<<Entry(kData, Leaf("absent"))>>),
   Obj(<<Entry(kData, Arr(BatchOf(Leaf("absent"))))>>),
   Obj(<<Entry(kWhere, Where), Entry(kCreate, Leaf("absent")),
         Entry(kUpdate, Obj(<<NameB>>))>>)}

Calls(o) ==
  {[model |-> mUser, args |-> a] : a \in ArgsOf(o)}
  \cup {[model |-> mWidget, args |-> a] : a \in WidgetArgs \cap ArgsOf(o)}

-----------------------------------------------------------------------------
(* The state machine: one configured extension, one intercepted call *)

Init ==
  /\ options \in Configs
  /\ now = Clock
  /\ drawn = 0
  /\ pc = "idle"
  /\ op = "none"
  /\ model = <<>>
  /\ callArgs = Undef
  /\ args = Undef
  /\ context = Undef
  /\ queried = FALSE
  /\ queryArgs = Undef
  /\ thrown = NoError
  /\ generated = 0
  /\ log = <<>>
  /\ issued = <<>>
  /\ encoded = <<>>
  /\ setups = <<>>
  /\ middlewareWarned = FALSE
  /\ supplied = Undef
  /\ answer = Unsettled
  /\ returned = Unsettled
  /\ hasWarned = FALSE
  /\ inflight = <<>>
  /\ visited = <<>>

\* The handler ran on call c: it either threw or forwarded args to query
Finish(o, c, ctx, r) ==
  /\ pc' = "done"
  /\ op' = o
  /\ model' = c.model
  /\ callArgs' = c.args
  /\ context' = ctx
  /\ args' = r.args
  /\ queried' = r.queried
  /\ queryArgs' = IF r.queried THEN r.args ELSE Undef
  /\ thrown' = r.st.err
  /\ generated' = r.st.n
  /\ log' = r.st.log
  /\ visited' = r.st.visited
  /\ drawn' = drawn + r.st.n
  /\ supplied' = c.args
  /\ answer' = Unsettled
  /\ returned' = IF Failed(r.st) THEN Rejected(r.st.err) ELSE Unsettled
  /\ UNCHANGED <<options, now, issued, encoded, setups, middlewareWarned,
                 hasWarned, inflight>>

Create ==
  /\ pc = "idle"
  /\ \E c \in Calls("create"), ctx \in Contexts :
       \E r \in {create(c.model, c.args, ctx)} : Finish("create", c, ctx, r)

CreateMany ==
  /\ pc = "idle"
  /\ \E c \in Calls("createMany"), ctx \in Contexts :
       \E r \in {createMany(c.model, c.args, ctx)} :
         Finish("createMany", c, ctx, r)

CreateManyAndReturn ==
  /\ pc = "idle"
  /\ \E c \in Calls("createManyAndReturn"), ctx \in Contexts :
       \E r \in {createManyAndReturn(c.model, c.args, ctx)} :
         Finish("createManyAndReturn", c, ctx, r)

Upsert ==
  /\ pc = "idle"
  /\ \E c \in Calls("upsert"), ctx \in Contexts :
       \E r \in {upsert(c.model, c.args, ctx)} : Finish("upsert", c, ctx, r)

\* What query(args) may settle with: the stored row, or a failure
QueryOutcomes ==
  { Resolved(Obj(<<Entry(kId, Str(<<"r","o","w","_","1">>)), NameA>>)),
    Rejected(DatabaseError) }

\* return query(args): the promise query returned settles, and the promise
\* the async handler returned settles the same way
Settle ==
  /\ pc = "done"
  /\ queried
  /\ \E q \in QueryOutcomes :
       /\ answer' = q
       /\ returned' = q
  /\ pc' = "settled"
  /\ UNCHANGED <<options, now, drawn, op, model, callArgs, args, context,
                 queried, queryArgs, thrown, generated, log, issued, encoded,
                 setups, middlewareWarned, supplied, hasWarned, inflight, visited>>

Next == Create \/ CreateMany \/ CreateManyAndReturn \/ Upsert \/ Settle

Spec == Init /\ [][Next]_vars

-----------------------------------------------------------------------------
(* The generator alone: generateKSUID called with prefixes, clock readings
   and random payloads of the caller's and the environment's choosing, and
   encodeBase62 applied to 20-byte buffers. *)

\* Calls recorded per behaviour, generator and encoder calls together
MaxCalls == 2

\* A character outside ASCII is spelled by its code unit
Prefixes ==
  { <<>>,
    usr_,
    <<"U+00E9", "U+4E2D", "U+D83D", "U+DE00", "U+0000", "\\", "$", " ">>,
    [i \in 1..64 |-> "x"] }

Zeros(n) == [i \in 1..n |-> 0]

Ones(n) == [i \in 1..n |-> 255]

\* What crypto.randomBytes(16) may return
RandomPayloads == {Zeros(16), Ones(16), randomBytes(1), randomBytes(2)}

\* Readings of Math.floor(Date.now() / 1000), in increasing order
ClockReadings == <<EPOCH, EPOCH + 255, EPOCH + 256, Clock, Clock + 1>>

ClockValues == {ClockReadings[i] : i \in 1..Len(ClockReadings)}

\* 20-byte buffers, the smallest and the largest among them
Buffers ==
  { Zeros(20),
    Ones(20),
    <<0, 0, 0, 1>> \o Ones(16),
    <<0, 0, 1, 0>> \o Zeros(16),
    <<127, 255, 255, 255>> \o Ones(16),
    <<128, 0, 0, 0>> \o Zeros(16),
    <<255, 255, 255, 255>> \o Zeros(16) }

\* generateKSUID on the inputs above, worked out once
Generated ==
  [p \in Prefixes, s \in ClockValues, r \in RandomPayloads |->
     generateKSUIDWith(p, s, r)]

\* encodeBase62 on the buffers above, worked out once
Encoded == [b \in Buffers |-> encodeBase62(b)]

GenInit ==
  /\ options = Config(FullMap, "none", TRUE, PkId)
  /\ now \in ClockValues
  /\ drawn = 0
  /\ pc = "idle"
  /\ op = "none"
  /\ model = <<>>
  /\ callArgs = Undef
  /\ args = Undef
  /\ context = Undef
  /\ queried = FALSE
  /\ queryArgs = Undef
  /\ thrown = NoError
  /\ generated = 0
  /\ log = <<>>
  /\ issued = <<>>
  /\ encoded = <<>>
  /\ setups = <<>>
  /\ middlewareWarned = FALSE
  /\ supplied = Undef
  /\ answer = Unsettled
  /\ returned = Unsettled
  /\ hasWarned = FALSE
  /\ inflight = <<>>
  /\ visited = <<>>

Rewriter ==
  <<options, pc, op, model, callArgs, args, context, queried, queryArgs,
    thrown, generated, log, setups, middlewareWarned, supplied, answer,
    returned, hasWarned, inflight, visited>>

\* The wall clock moves on
Tick ==
  /\ \E s \in ClockValues : s > now /\ now' = s
  /\ UNCHANGED <<Rewriter, drawn, issued, encoded>>

\* generateKSUID(prefix), the random source returning payload
Generate ==
  /\ Len(issued) + Len(encoded) < MaxCalls
  /\ \E prefix \in Prefixes, payload \in RandomPayloads :
       issued' = Append(issued, [prefix |-> prefix, now |-> now,
                                 payload |-> payload,
                                 id |-> Generated[prefix, now, payload]])
  /\ drawn' = drawn + 1
  /\ UNCHANGED <<Rewriter, now, encoded>>

\* encodeBase62(buffer)
Encode ==
  /\ Len(issued) + Len(encoded) < MaxCalls
  /\ \E buffer \in Buffers :
       encoded' = Append(encoded, [buffer |-> buffer, str |-> Encoded[buffer]])
  /\ UNCHANGED <<Rewriter, now, drawn, issued>>

GenNext == Tick \/ Generate \/ Encode

GenSpec == GenInit /\ [][GenNext]_vars

-----------------------------------------------------------------------------
(* The handlers of src/src/prisma-extension.ts, one intercepted call *)

\* The handler ran on call c; supplied is the caller's args with the data
\* object it passed in as that object reads afterwards
FinishInPlace(o, c, r) ==
  /\ pc' = "done"
  /\ op' = o
  /\ model' = c.model
  /\ callArgs' = c.args
  /\ context' = Undef
  /\ args' = r.args
  /\ queried' = r.queried
  /\ queryArgs' = IF r.queried THEN r.args ELSE Undef
  /\ thrown' = r.st.err
  /\ generated' = r.st.n
  /\ log' = r.st.log
  /\ visited' = r.st.visited
  /\ drawn' = drawn + r.st.n
  /\ supplied' = IF HasKey(c.args, kData)
                 THEN Spread(c.args, kData, r.caller)
                 ELSE c.args
  /\ answer' = Unsettled
  /\ returned' = IF Failed(r.st) THEN Rejected(r.st.err) ELSE Unsettled
  /\ UNCHANGED <<options, now, issued, encoded, setups, middlewareWarned,
                 hasWarned, inflight>>

CreateInPlace ==
  /\ pc = "idle"
  /\ \E c \in Calls("create") :
       FinishInPlace("create", c, createInPlace(c.model, c.args))

CreateManyInPlace ==
  /\ pc = "idle"
  /\ \E c \in Calls("createMany") :
       FinishInPlace("createMany", c, createManyInPlace(c.model, c.args))

InPlaceNext == CreateInPlace \/ CreateManyInPlace \/ Settle

InPlaceSpec == Init /\ [][InPlaceNext]_vars

-----------------------------------------------------------------------------
(* Setting up: createKsuidExtension and createKsuidMiddleware called with
   options objects of the caller's choosing, well-formed or not. *)

\* Calls of the two factories recorded per behaviour
MaxSetups == 2

\* Values passed as options.prefixMap
PrefixTables ==
  { Undef, Null, Str(<<>>), Str(<<"n","o">>), Num(0), Num(42),
    Arr(<<>>), Arr(<<Str(usr_)>>),
    Obj(<<>>),
    Obj(<<Entry(mUser, Str(usr_))>>),
    Obj(<<Entry(mUser, Str(usr_)), Entry(mProfile, Str(prof_))>>),
    Obj(<<Entry(mUser, Str(<<>>))>>),
    Obj(<<Entry(mUser, Null)>>),
    Obj(<<Entry(mUser, Undef)>>) }

GivenOptions == [prefixMap : PrefixTables, prefixFn : {"none", "suffix"}]

SetupInit ==
  /\ options = Config(FullMap, "none", TRUE, PkId)
  /\ now = Clock
  /\ drawn = 0
  /\ pc = "idle"
  /\ op = "none"
  /\ model = <<>>
  /\ callArgs = Undef
  /\ args = Undef
  /\ context = Undef
  /\ queried = FALSE
  /\ queryArgs = Undef
  /\ thrown = NoError
  /\ generated = 0
  /\ log = <<>>
  /\ issued = <<>>
  /\ encoded = <<>>
  /\ setups = <<>>
  /\ middlewareWarned = FALSE
  /\ supplied = Undef
  /\ answer = Unsettled
  /\ returned = Unsettled
  /\ hasWarned = FALSE
  /\ inflight = <<>>
  /\ visited = <<>>

Intercepted ==
  <<options, now, drawn, pc, op, model, callArgs, args, context, queried,
    queryArgs, thrown, generated, log, issued, encoded, supplied, answer,
    returned, inflight, visited>>

\* createKsuidExtension(given)
CreateKsuidExtension ==
  /\ Len(setups) + Len(issued) < MaxSetups
  /\ \E given \in GivenOptions :
       setups' = Append(setups, [via |-> "createKsuidExtension",
                                 given |-> given,
                                 warned |-> FALSE,
                                 result |-> createKsuidExtension(given)])
  /\ UNCHANGED <<Intercepted, middlewareWarned, hasWarned>>

\* createKsuidMiddleware(given): the notice on first use, then the same
CreateKsuidMiddleware ==
  /\ Len(setups) + Len(issued) < MaxSetups
  /\ \E given \in GivenOptions :
       setups' = Append(setups, [via |-> "createKsuidMiddleware",
                                 given |-> given,
                                 warned |-> ~middlewareWarned,
                                 result |-> createKsuidExtension(given)])
  /\ middlewareWarned' = TRUE
  /\ UNCHANGED <<Intercepted, hasWarned>>

\* The deprecated export with the notice on every call
deprecatedGenerateKSUIDAlwaysWarns(prefix, warnedBefore) ==
  [warned |-> TRUE,
   hasWarned |-> TRUE,
   id |-> generateKSUID(prefix, NoEffects).val]

\* export function generateKSUID(...args): the notice unless hasWarned, then
\* the identifier of the generator in ./util/ksuid
deprecatedGenerateKSUID(prefix, warnedBefore) ==
  [warned |-> ~warnedBefore,
   hasWarned |-> TRUE,
   id |-> generateKSUID(prefix, NoEffects).val]

\* generateKSUID(prefix) through the package's index
DeprecatedGenerateKSUID ==
  /\ Len(setups) + Len(issued) < MaxSetups
  /\ \E prefix \in {<<>>, usr_} :
       LET r == deprecatedGenerateKSUID(prefix, hasWarned)
       IN /\ issued' = Append(issued, [prefix |-> prefix, now |-> now,
                                       warned |-> r.warned, id |-> r.id])
          /\ hasWarned' = r.hasWarned
  /\ drawn' = drawn + 1
  /\ UNCHANGED <<options, now, pc, op, model, callArgs, args, context,
                 queried, queryArgs, thrown, generated, log, encoded, setups,
                 middlewareWarned, supplied, answer, returned, inflight,
                 visited>>

SetupNext ==
  CreateKsuidExtension \/ CreateKsuidMiddleware \/ DeprecatedGenerateKSUID

SetupSpec == SetupInit /\ [][SetupNext]_vars

-----------------------------------------------------------------------------
(* The middleware of src/unnamed/part_009, one call: callArgs, args and
   queryArgs hold the params object as received, as left and as handed to
   next. *)

Actions ==
  { <<"c","r","e","a","t","e">>, <<"c","r","e","a","t","e","M","a","n","y">>,
    <<"u","p","d","a","t","e">>, <<"d","e","l","e","t","e">>,
    <<"f","i","n","d","U","n","i","q","u","e">>,
    <<"f","i","n","d","M","a","n","y">>, <<"u","p","s","e","r","t">> }

\* The args of the calls: with data an object, an array, null, missing
MiddlewareArgs ==
  {Obj(<<Entry(kData, d)>>) : d \in SmallPayloads \cup {Null, Obj(<<>>)}}
  \cup {Obj(<<Entry(kData, Arr(BatchWithNulls(d)))>>) : d \in SpineAt(0)}
  \cup {Obj(<<Entry(kData, Arr(BatchOf(d)))>>) : d \in SpineAt(0)}
  \cup {Obj(<<>>), Obj(<<Entry(kWhere, Where)>>)}

\* What the host hands the middleware: params of a model with a prefix, of
\* one without, of no model (a raw query), and malformed params
ParamsGiven ==
  {Obj(<<Entry(kModel, Str(m)), Entry(kAction, Str(a)), Entry(kArgs, x)>>) :
     m \in {mUser, mWidget}, a \in Actions, x \in MiddlewareArgs}
  \cup {Obj(<<Entry(kAction, Str(a)), Entry(kArgs, Obj(<<Entry(kData, Leaf("absent"))>>))>>) :
          a \in Actions}
  \cup {Obj(<<Entry(kModel, Str(mUser)), Entry(kAction, Str(a))>>) : a \in Actions}
  \cup {Null, Undef}

\* The middleware ran on params with outcome r; the caller's params object
\* is the one the middleware wrote to
MiddlewareRan(params, r) ==
  /\ pc' = "done"
  /\ op' = IF Truthy(Get(params, kAction)) THEN Get(params, kAction).v ELSE <<>>
  /\ model' = IF Truthy(Get(params, kModel)) THEN Get(params, kModel).v ELSE <<>>
  /\ callArgs' = params
  /\ context' = Undef
  /\ args' = r.args
  /\ queried' = r.queried
  /\ queryArgs' = IF r.queried THEN r.args ELSE Undef
  /\ thrown' = r.st.err
  /\ generated' = r.st.n
  /\ log' = r.st.log
  /\ visited' = r.st.visited
  /\ drawn' = drawn + r.st.n
  /\ supplied' = r.args
  /\ answer' = Unsettled
  /\ returned' = IF Failed(r.st) THEN Rejected(r.st.err) ELSE Unsettled
  /\ UNCHANGED <<options, now, issued, encoded, setups, middlewareWarned,
                 hasWarned, inflight>>

Middleware ==
  /\ pc = "idle"
  /\ \E params \in ParamsGiven : MiddlewareRan(params, middleware(params))

MiddlewareNext == Middleware \/ Settle

MiddlewareSpec == Init /\ [][MiddlewareNext]_vars

-----------------------------------------------------------------------------
(* Relation-name inference alone: the name a relation field is given by
   inferModelNameFromRelation (src/unnamed/part_011) and by the heuristic
   inside processNestedCreates (src/src/prisma-extension.ts). *)

\* Field names: the overrides, regular and irregular plurals, names that
\* are one suffix long, capitalised names, the empty name
RelationKeys ==
  { <<>>, kItems, kItem, kAuthor, kItemsField, kProfile, kPosts,
    <<"c","a","t","e","g","o","r","i","e","s">>,
    <<"c","o","m","p","a","n","i","e","s">>,
    <<"s","e","r","i","e","s">>, <<"t","i","e","s">>, <<"i","e","s">>,
    <<"I","e","s">>, <<"x","i","e","s">>, <<"e","s">>, <<"s">>, <<"S">>,
    <<"s","s">>, <<"a","s">>, <<"y">>, <<"a">>, <<"Z">>,
    <<"n","e","w","s">>, <<"a","d","d","r","e","s","s">>,
    <<"a","u","t","h","o","r","s">>, <<"A","u","t","h","o","r">>,
    <<"i","t","e","m","s","s">>, <<"I","t","e","m">>,
    <<"o","r","d","e","r","I","t","e","m","s">>,
    <<"P","o","s","t","s">>, <<"p","o","s","t">>, <<"t","a","g","s">>,
    <<"_","t","a","g","s">>, <<"1","s">>, <<"9","i","e","s">>,
    <<"p","r","o","f","i","l","e","s">>, <<"b","u","s">>,
    <<"p","o","l","i","c","i","e","s">>, <<"i","e","s","s">>,
    <<"d","a","t","a">>, <<"c","r","e","a","t","e">>, <<"i","d">>,
    <<"i","d","s">>, <<"k","e","y","s">>, <<"p","o","n","i","e","s">>,
    <<"u","s","e","r">>, <<"u","s","e","r","s">>, <<"m","e","t","a">>,
    <<"l","i","s","t">>, <<"l","i","s","t","s">> }

\* A relation field name is about to be read
InferInit ==
  /\ options = Config(FullMap, "none", TRUE, PkId)
  /\ now = Clock
  /\ drawn = 0
  /\ pc = "idle"
  /\ op = "none"
  /\ model = <<>>
  /\ callArgs \in {Str(k) : k \in RelationKeys}
  /\ args = Undef
  /\ context = Undef
  /\ queried = FALSE
  /\ queryArgs = Undef
  /\ thrown = NoError
  /\ generated = 0
  /\ log = <<>>
  /\ issued = <<>>
  /\ encoded = <<>>
  /\ setups = <<>>
  /\ middlewareWarned = FALSE
  /\ supplied = Undef
  /\ answer = Unsettled
  /\ returned = Unsettled
  /\ hasWarned = FALSE
  /\ inflight = <<>>
  /\ visited = <<>>

\* The name read off the field by implementation o
Inferred(o, name) ==
  /\ pc' = "inferred"
  /\ op' = o
  /\ model' = name
  /\ UNCHANGED <<options, now, drawn, callArgs, args, context, queried,
                 queryArgs, thrown, generated, log, issued, encoded, setups,
                 middlewareWarned, supplied, answer, returned, hasWarned,
                 inflight,
                 visited>>

\* inferModelNameFromRelation(relationKey)
InferModelNameFromRelation ==
  /\ pc = "idle"
  /\ Inferred("inferModelNameFromRelation",
              inferModelNameFromRelation(callArgs.v))

\* let modelName = key.charAt(0).toUpperCase() + key.slice(1); ...
InferInProcessNestedCreates ==
  /\ pc = "idle"
  /\ Inferred("processNestedCreates", inferInPlace(callArgs.v))

InferNext == InferModelNameFromRelation \/ InferInProcessNestedCreates

InferSpec == InferInit /\ [][InferNext]_vars

-----------------------------------------------------------------------------
(* The traversal alone: processNestedCreates applied to one payload tree *)

\* { level: d, data: { level: d - 1, data: ... { name: "a" } } }
RECURSIVE Chain(_)
Chain(d) ==
  IF d = 0
  THEN Leaf("absent")
  ELSE Obj(<<Entry(kList, Num(d)), Entry(kData, Chain(d - 1))>>)

\* Arrays in arrays, scalars beside mappings, equal mappings side by side
Mixtures ==
  { Null, Undef, Num(0), Str(<<"a">>), Arr(<<>>), Obj(<<>>),
    Arr(BatchWithNulls(Leaf("absent"))),
    Arr(<<Num(0), Arr(<<Leaf("absent"), Null, Arr(<<Leaf("absent")>>)>>),
          Leaf("absent")>>),
    Obj(<<NameA, Entry(kMeta, Arr(<<Str(<<"a">>), Leaf("kept"),
                                    Arr(<<Leaf("kept")>>)>>)),
          Entry(kList, Leaf("kept"))>>),
    Obj(<<Entry(kPosts, Obj(<<Entry(kCreate,
            Arr(<<Null, Num(0), Leaf("absent"),
                  WithRelation("absent",
                    Entry(kMeta, Arr(BatchOf(Leaf("absent")))))>>))>>))>>) }

Trees ==
  Payloads \cup Mixtures \cup {Chain(d) : d \in 1..(MaxDepth + 3)}
  \cup {Arr(BatchOf(d)) : d \in SmallPayloads}

TraverseConfigs ==
  { Config(FullMap, "none", TRUE, PkId),
    Config((mUser :> usr_), "none", TRUE, PkId) }

TraverseInit ==
  /\ options \in TraverseConfigs
  /\ now = Clock
  /\ drawn = 0
  /\ pc = "idle"
  /\ op = "none"
  /\ model = mUser
  /\ callArgs \in Trees
  /\ args = Undef
  /\ context = PlainContext
  /\ queried = FALSE
  /\ queryArgs = Undef
  /\ thrown = NoError
  /\ generated = 0
  /\ log = <<>>
  /\ issued = <<>>
  /\ encoded = <<>>
  /\ setups = <<>>
  /\ middlewareWarned = FALSE
  /\ supplied = Undef
  /\ answer = Unsettled
  /\ returned = Unsettled
  /\ hasWarned = FALSE
  /\ inflight = <<>>
  /\ visited = <<>>

\* The traversal o returned or threw with r
Traversed(o, r) ==
  /\ pc' = "traversed"
  /\ op' = o
  /\ args' = r.val
  /\ thrown' = r.st.err
  /\ generated' = r.st.n
  /\ log' = r.st.log
  /\ visited' = r.st.visited
  /\ drawn' = drawn + r.st.n
  /\ UNCHANGED <<options, now, model, callArgs, context, queried, queryArgs,
                 issued, encoded, setups, middlewareWarned, supplied, answer,
                 returned, hasWarned, inflight>>

\* processNestedCreates(data, parentModel, context)
ProcessNestedCreates ==
  /\ pc = "idle"
  /\ Traversed("processNestedCreates",
               processNestedCreates(callArgs, model, context, NoEffects))

\* processNestedCreates(data, parentModel) of the revision that writes into
\* the caller's objects
ProcessNestedCreatesInPlace ==
  /\ pc = "idle"
  /\ Traversed("processNestedCreatesInPlace",
               processNestedCreatesInPlace(callArgs, model, NoEffects))

TraverseNext == ProcessNestedCreates \/ ProcessNestedCreatesInPlace

TraverseSpec == TraverseInit /\ [][TraverseNext]_vars

-----------------------------------------------------------------------------
(* Several calls in flight. A handler runs without a pause from its entry to
   its `return query(args)`: it holds no await, so the calls of a host
   interleave only between one handler's rewrite and the settling of the
   queries. The random source and the wall clock are what the calls share. *)

\* Calls in flight per behaviour
MaxInFlight == 2

ConcConfigs ==
  { Config(FullMap, "none", TRUE, PkId),
    Config((mUser :> <<>>) @@ (mProfile :> prof_), "suffix", TRUE, PkId) }

\* The calls a host makes at once: [op, model, args, context]
ConcCalls ==
  { [op |-> "create", model |-> mUser, context |-> PlainContext,
     args |-> Obj(<<Entry(kData, WithRelation("absent",
                Entry(kProfile, Obj(<<Entry(kCreate, Leaf("absent"))>>))))>>)],
    [op |-> "create", model |-> mUser, context |-> DmmfContext,
     args |-> Obj(<<Entry(kData, WithRelation("kept",
                Entry(kPosts, Obj(<<Entry(kCreateMany, Obj(<<Entry(kData,
                  Arr(BatchOf(Leaf("absent"))))>>))>>))))>>)],
    [op |-> "createMany", model |-> mUser, context |-> PlainContext,
     args |-> Obj(<<Entry(kData, Arr(BatchOf(Leaf("absent"))))>>)],
    [op |-> "upsert", model |-> mUser, context |-> PlainContext,
     args |-> Obj(<<Entry(kWhere, Where), Entry(kCreate, Leaf("absent")),
                    Entry(kUpdate, UpdateWithCreate)>>)],
    [op |-> "create", model |-> mWidget, context |-> PlainContext,
     args |-> Obj(<<Entry(kData, Leaf("absent"))>>)] }

\* query.$allModels[op]({ model, args, query, ...context })
Intercept(c) ==
  CASE c.op = "create" -> create(c.model, c.args, c.context)
    [] c.op = "createMany" -> createMany(c.model, c.args, c.context)
    [] c.op = "createManyAndReturn" ->
         createManyAndReturn(c.model, c.args, c.context)
    [] OTHER -> upsert(c.model, c.args, c.context)

\* Each call to come, nothing run yet
ConcInit ==
  /\ options \in ConcConfigs
  /\ now = Clock
  /\ drawn = 0
  /\ pc = "idle"
  /\ op = "none"
  /\ model = <<>>
  /\ callArgs = Undef
  /\ args = Undef
  /\ context = Undef
  /\ queried = FALSE
  /\ queryArgs = Undef
  /\ thrown = NoError
  /\ generated = 0
  /\ log = <<>>
  /\ issued = <<>>
  /\ encoded = <<>>
  /\ setups = <<>>
  /\ middlewareWarned = FALSE
  /\ supplied = Undef
  /\ answer = Unsettled
  /\ returned = Unsettled
  /\ hasWarned = FALSE
  /\ visited = <<>>
  /\ \E plan \in [1..MaxInFlight -> ConcCalls] :
       inflight = [i \in 1..MaxInFlight |->
                     [call |-> plan[i],
                      status |-> "waiting",
                      ran |-> Outcome(plan[i].args, NoEffects, FALSE),
                      returned |-> Unsettled]]

Single ==
  <<options, pc, op, model, callArgs, args, context, queried, queryArgs,
    thrown, generated, log, issued, encoded, setups, middlewareWarned,
    supplied, answer, returned, hasWarned,
    visited>>

\* A handler that keeps one args object for all calls: what call i wrote
\* shows in the args of the calls still to run
InvokedSharing(i, r) ==
  /\ inflight' =
       [j \in 1..Len(inflight) |->
          IF j = i
          THEN [inflight[j] EXCEPT
                  !.ran = r,
                  !.status = IF r.queried THEN "querying" ELSE "threw",
                  !.returned = IF Failed(r.st) THEN Rejected(r.st.err)
                               ELSE Unsettled]
          ELSE IF inflight[j].status = "waiting"
          THEN [inflight[j] EXCEPT !.ran.args = r.args]
          ELSE inflight[j]]
  /\ drawn' = drawn + r.st.n
  /\ UNCHANGED <<Single, now>>

\* The handler of call i has run with outcome r: either it has thrown or
\* query(args) is under way
Invoked(i, r) ==
  /\ inflight' =
       [inflight EXCEPT
          ![i].ran = r,
          ![i].status = IF r.queried THEN "querying" ELSE "threw",
          ![i].returned = IF Failed(r.st) THEN Rejected(r.st.err)
                          ELSE Unsettled]
  /\ drawn' = drawn + r.st.n
  /\ UNCHANGED <<Single, now>>

\* The host calls the handler of call i: the rewrite runs to its end
Invoke(i) ==
  /\ inflight[i].status = "waiting"
  /\ Invoked(i, Intercept(inflight[i].call))

\* The query of call i settles, and the handler's promise with it
SettleCall(i) ==
  /\ inflight[i].status = "querying"
  /\ \E q \in QueryOutcomes :
       inflight' = [inflight EXCEPT ![i].status = "settled",
                                    ![i].returned = q]
  /\ UNCHANGED <<Single, now, drawn>>

\* A second goes by while calls are in flight
ConcTick ==
  /\ now = Clock
  /\ now' = Clock + 1
  /\ UNCHANGED <<Single, drawn, inflight>>

ConcNext ==
  \/ \E i \in 1..MaxInFlight : Invoke(i)
  \/ \E i \in 1..MaxInFlight : SettleCall(i)
  \/ ConcTick

ConcSpec == ConcInit /\ [][ConcNext]_vars

-----------------------------------------------------------------------------
(* What the claims speak of, stated from the specification and read off the
   supplied payload and the payload handed to query: the creation points
   (section 4.5), the entity type and the prefix each one is owed. *)

Done == pc = "done"

Succeeded == Done /\ queried /\ thrown = NoError

\* The primary-key field the selector gives entity type m
PkFieldOf(m) ==
  IF options.primaryKeyField.fn /\ m \in DOMAIN options.primaryKeyField.special
  THEN options.primaryKeyField.special[m]
  ELSE options.primaryKeyField.name

HasTableEntry(m) == m \in DOMAIN options.prefixMap /\ options.prefixMap[m] # <<>>

HasFallbackPrefix(m) ==
  /\ options.prefixFn # "none"
  /\ prefixFn(m).t = "str"
  /\ prefixFn(m).v # <<>>

\* The fallback is consulted for m and throws instead of answering
FallbackThrows(m) == ~HasTableEntry(m) /\ prefixFnThrows(m)

\* Section 4.3: when resolution succeeds, and with what
Resolvable(m) == HasTableEntry(m) \/ HasFallbackPrefix(m)

PrefixOwed(m) == IF HasTableEntry(m) THEN options.prefixMap[m] ELSE prefixFn(m).v

\* The entity type a relation field names (section 4.4), for the fields used;
\* a field that names Item stands for OrderItem when Item has no prefix and
\* OrderItem has one
TypeOfRelation(key) ==
  CASE key = kProfile -> mProfile
    [] key = kPosts -> mPost
    [] key = kItemsField ->
         IF ~Resolvable(mItem) /\ Resolvable(mOrderItem)
         THEN mOrderItem
         ELSE mItem
    [] OTHER -> <<"?">>

\* A caller-supplied identifier: not absent, null, undefined or ""
Supplied(node, pk) ==
  /\ HasKey(node, pk)
  /\ Get(node, pk) \notin {Null, Undef, Str(<<>>)}

IsObject(x) == x.t = "obj"

ObjectsOf(x) == IF x.t = "arr" THEN SelectSeq(x.v, IsObject) ELSE <<>>

At(seq, i) == IF i <= Len(seq) THEN seq[i] ELSE Undef

\* A creation point: its entity type, the node as supplied and as forwarded,
\* the marker it hangs under, and for connectOrCreate the two where sides
Point(m, in, out, marker, whereIn, whereOut) ==
  [m |-> m, in |-> in, out |-> out, marker |-> marker,
   whereIn |-> whereIn, whereOut |-> whereOut]

HasDataArray(v) ==
  /\ HasKey(v, kCreateMany)
  /\ HasKey(Get(v, kCreateMany), kData)
  /\ Get(Get(v, kCreateMany), kData).t = "arr"

IsMarked(v) ==
  \/ HasKey(v, kCreate) /\ Get(v, kCreate).t \in {"obj", "arr"}
  \/ HasDataArray(v)
  \/ HasKey(v, kConnectOrCreate)
  \/ HasKey(v, kUpsert)

RECURSIVE PointsIn(_, _, _)
RECURSIVE PointsInEntries(_, _, _, _)
RECURSIVE PointsInItems(_, _, _, _)
RECURSIVE Targets(_, _, _, _, _, _)
RECURSIVE TargetItems(_, _, _, _, _)
RECURSIVE PairedItems(_, _, _, _, _)

\* The creation point at mapping `in` and the ones nested in it
Target(m, in, out, marker, whereIn, whereOut) ==
  <<Point(m, in, out, marker, whereIn, whereOut)>> \o PointsIn(in, out, m)

\* x is one create payload or an array of them
Targets(m, x, ox, marker, whereIn, whereOut) ==
  IF x.t = "obj"
  THEN Target(m, x, ox, marker, whereIn, whereOut)
  ELSE TargetItems(m, ObjectsOf(x), ObjectsOf(ox), 1, marker)

TargetItems(m, ins, outs, i, marker) ==
  IF i > Len(ins)
  THEN <<>>
  ELSE Target(m, ins[i], At(outs, i), marker, Undef, Undef)
       \o TargetItems(m, ins, outs, i + 1, marker)

\* One connectOrCreate or upsert entry: its create side is a creation point,
\* its update side is scanned but is none itself
Paired(m, e, oe, marker) ==
  (IF Get(e, kCreate).t = "obj"
   THEN Target(m, Get(e, kCreate), Get(oe, kCreate), marker,
               Get(e, kWhere), Get(oe, kWhere))
   ELSE <<>>)
  \o (IF marker = "upsert"
      THEN PointsIn(Get(e, kUpdate), Get(oe, kUpdate), m)
      ELSE <<>>)

PairedItems(m, ins, outs, i, marker) ==
  IF i > Len(ins)
  THEN <<>>
  ELSE Paired(m, ins[i], At(outs, i), marker)
       \o PairedItems(m, ins, outs, i + 1, marker)

PairedOf(m, x, ox, marker) ==
  IF x.t = "obj"
  THEN Paired(m, x, ox, marker)
  ELSE PairedItems(m, ObjectsOf(x), ObjectsOf(ox), 1, marker)

\* The creation points under relation field key, whose value is v
PointsOfField(key, v, ov, parentModel) ==
  IF v.t = "arr"
  THEN PointsIn(v, ov, parentModel)
  ELSE IF v.t = "obj" /\ IsMarked(v)
  THEN LET m == TypeOfRelation(key)
       IN (IF HasKey(v, kCreate)
           THEN Targets(m, Get(v, kCreate), Get(ov, kCreate), "create",
                        Undef, Undef)
           ELSE <<>>)
          \o (IF HasDataArray(v)
              THEN Targets(m, Get(Get(v, kCreateMany), kData),
                           Get(Get(ov, kCreateMany), kData), "createMany",
                           Undef, Undef)
              ELSE <<>>)
          \o (IF HasKey(v, kConnectOrCreate)
              THEN PairedOf(m, Get(v, kConnectOrCreate),
                            Get(ov, kConnectOrCreate), "connectOrCreate")
              ELSE <<>>)
          \o (IF HasKey(v, kUpsert)
              THEN PairedOf(m, Get(v, kUpsert), Get(ov, kUpsert), "upsert")
              ELSE <<>>)
  ELSE IF v.t = "obj"
  THEN PointsIn(v, ov, parentModel)
  ELSE <<>>

PointsInEntries(entries, out, i, parentModel) ==
  IF i > Len(entries)
  THEN <<>>
  ELSE PointsOfField(entries[i].k, entries[i].v, Get(out, entries[i].k),
                     parentModel)
       \o PointsInEntries(entries, out, i + 1, parentModel)

PointsInItems(ins, outs, i, parentModel) ==
  IF i > Len(ins)
  THEN <<>>
  ELSE PointsIn(ins[i], At(outs, i), parentModel)
       \o PointsInItems(ins, outs, i + 1, parentModel)

\* The creation points nested in `in`, which is not one itself
PointsIn(in, out, parentModel) ==
  IF in.t = "obj"
  THEN PointsInEntries(in.v, out, 1, parentModel)
  ELSE IF in.t = "arr"
  THEN PointsInItems(ObjectsOf(in), ObjectsOf(out), 1, parentModel)
  ELSE <<>>

\* The root records of a call, as supplied (a) and as forwarded (b)
RootPoints(a, b) ==
  IF op = "upsert"
  THEN IF Get(a, kCreate).t = "obj"
       THEN <<Point(model, Get(a, kCreate), Get(b, kCreate), "root",
                    Undef, Undef)>>
       ELSE <<>>
  ELSE IF Get(a, kData).t = "obj"
  THEN <<Point(model, Get(a, kData), Get(b, kData), "root", Undef, Undef)>>
  ELSE LET ins == ObjectsOf(Get(a, kData))
           outs == ObjectsOf(Get(b, kData))
       IN [i \in 1..Len(ins) |->
             Point(model, ins[i], At(outs, i), "root", Undef, Undef)]

\* The creation points below the roots
NestedPoints(a, b) ==
  IF op = "upsert"
  THEN PointsIn(Get(a, kCreate), Get(b, kCreate), model)
       \o PointsIn(Get(a, kUpdate), Get(b, kUpdate), model)
  ELSE PointsIn(Get(a, kData), Get(b, kData), model)

\* Every creation point of the finished call, supplied against forwarded
AllPoints == RootPoints(callArgs, queryArgs) \o NestedPoints(callArgs, queryArgs)

Range(seq) == {seq[i] : i \in 1..Len(seq)}

\* The identifiers the generator returned during the call, in call order
GeneratedIds ==
  LET calls == SelectSeq(log, LAMBDA ev : ev.e = "generate")
  IN [i \in 1..Len(calls) |->
        Str(calls[i].m \o KsuidRandom(now, drawn - generated + i))]

IsBase62(body) ==
  \A i \in 1..Len(body) : \E j \in 1..Len(BASE62_ALPHABET) :
    body[i] = BASE62_ALPHABET[j]

\* value is prefix followed by 27 base62 characters
WellFormedId(value, prefix) ==
  /\ value.t = "str"
  /\ startsWith(value.v, prefix)
  /\ Len(value.v) = Len(prefix) + 27
  /\ IsBase62(SubSeq(value.v, Len(prefix) + 1, Len(value.v)))

Missing(p) == ~Supplied(p.in, PkFieldOf(p.m))

IdIn(p) == Get(p.in, PkFieldOf(p.m))

IdOut(p) == Get(p.out, PkFieldOf(p.m))

-----------------------------------------------------------------------------
(* C1 *)

\* C1: a primary key the caller supplied at a creation point (root, nested
\* create, createMany entry, connectOrCreate create side, upsert create side)
\* is forwarded unchanged, and no generator call is spent on that node: every
\* identifier the generator returned sits at a point whose key was missing.
C1_SuppliedIdKept ==
  Succeeded =>
    /\ \A p \in Range(AllPoints) :
         ~Missing(p) => IdOut(p) = IdIn(p) /\ IdOut(p) \notin Range(GeneratedIds)
    /\ \A g \in Range(GeneratedIds) :
         \E p \in Range(AllPoints) : Missing(p) /\ IdOut(p) = g

\* A create whose root was stamped while a nested creation point kept the
\* identifier it came with
C1_Witness ==
  /\ Succeeded
  /\ op = "create"
  /\ generated > 0
  /\ \E p \in Range(AllPoints) :
       p.marker # "root" /\ ~Missing(p) /\ IdOut(p) = kept
  /\ \E p \in Range(AllPoints) :
       p.marker = "root" /\ Missing(p) /\ IdOut(p) \in Range(GeneratedIds)

-----------------------------------------------------------------------------
(* C2 *)

\* The creation points that are owed a stamp: the roots, and the nested ones
\* when nested processing is on
DuePoints ==
  RootPoints(callArgs, queryArgs)
  \o (IF options.processNestedCreates
      THEN NestedPoints(callArgs, queryArgs)
      ELSE <<>>)

MissingDue == {i \in 1..Len(DuePoints) : Missing(DuePoints[i])}

\* C2: every creation point whose primary key is missing, the root and every
\* nested one, is forwarded with an identifier the generator returned, and
\* the generator ran exactly once per such point (the second stamping pass
\* draws nothing).
C2_MissingIdStampedOnce ==
  Succeeded =>
    /\ \A i \in MissingDue :
         /\ IdOut(DuePoints[i]) \in Range(GeneratedIds)
         /\ \A j \in MissingDue : j # i => IdOut(DuePoints[j]) # IdOut(DuePoints[i])
    /\ generated = Cardinality(MissingDue)

-----------------------------------------------------------------------------
(* C3 *)

\* The point's key was missing and is forwarded filled in
Stamped(p) == Missing(p) /\ Supplied(p.out, PkFieldOf(p.m))

\* C3: every stamped identifier is the prefix resolved for the node's own
\* entity type (the root's entityType, a nested point's type inferred from
\* its own relation field, never the parent's) followed by 27 base62
\* characters.
C3_PrefixOfOwnType ==
  Succeeded =>
    \A p \in Range(AllPoints) :
      Stamped(p) => Resolvable(p.m) /\ WellFormedId(IdOut(p), PrefixOwed(p.m))

\* Creating a User with a nested profile create under the table
\* {User: usr_, Profile: prof_, Post: post_}: the root carries usr_ and the
\* profile prof_
C3_Witness ==
  /\ Succeeded
  /\ op = "create"
  /\ model = mUser
  /\ options.prefixMap = FullMap
  /\ \E p, q \in Range(AllPoints) :
       /\ p.marker = "root" /\ Stamped(p) /\ WellFormedId(IdOut(p), usr_)
       /\ q.marker = "create" /\ q.m = mProfile /\ Stamped(q)
       /\ WellFormedId(IdOut(q), prof_)
       /\ ~startsWith(IdOut(q).v, usr_)

-----------------------------------------------------------------------------
(* C4 *)

\* The call ended in the prefix error
PrefixFailure == Done /\ thrown.kind = "PrefixNotDefined"

\* C4: a call that fails on prefix resolution, at the root or at a nested
\* creation point, never reaches query and leaves the caller's args (data,
\* create, update) exactly as supplied, whatever had been stamped before the
\* failing point was reached.
C4_AtomicOnFailure ==
  PrefixFailure => ~queried /\ queryArgs = Undef /\ args = callArgs

-----------------------------------------------------------------------------
(* C5 *)

EntityTypes == {mUser, mProfile, mPost, mWidget, mItem, mOrderItem}

\* C5: resolving the prefix of an entity type succeeds exactly when its table
\* entry is a non-empty string or the fallback returns a non-empty string,
\* and then yields that string; in every other case it fails with the error
\* "Prefix not defined or invalid for model" naming that entity type. A
\* finished call reports the root's failure, and any prefix failure it
\* reports names a type that cannot be resolved.
C5_PrefixResolution ==
  /\ \A m \in EntityTypes :
       LET r == ensurePrefixForModel(m, NoEffects)
       IN IF Resolvable(m)
          THEN ~Failed(r.st) /\ r.val = PrefixOwed(m)
          ELSE ~FallbackThrows(m) => r.st.err = PrefixNotDefined(m)
  /\ Done =>
       /\ ~Resolvable(model) /\ ~FallbackThrows(model)
            => thrown = PrefixNotDefined(model) /\ ~queried
       /\ thrown.kind = "PrefixNotDefined" => ~Resolvable(thrown.model)

\* A call on User whose table entry is the empty string and whose fallback
\* returned null failed with the error naming User, while Profile resolves
\* from the table
C5_Witness ==
  /\ Done
  /\ model = mUser
  /\ options.prefixFn = "null"
  /\ options.prefixMap[mUser] = <<>>
  /\ thrown = PrefixNotDefined(mUser)
  /\ ~queried
  /\ ~Failed(ensurePrefixForModel(mProfile, NoEffects).st)

-----------------------------------------------------------------------------
(* C6 *)

Keys(x) == {x.v[i].k : i \in 1..Len(x.v)}

\* out is the mapping in, but for the field pk
SameButFor(in, out, pk) ==
  /\ out.t = "obj"
  /\ \A k \in (Keys(in) \cup Keys(out)) \ {pk} :
       HasKey(in, k) /\ HasKey(out, k) /\ Get(out, k) = Get(in, k)

\* A finished create with nested processing off, on a type that resolves
RootOnlyCreate ==
  Done /\ op = "create" /\ ~options.processNestedCreates /\ Resolvable(model)

\* C6: with processNestedCreates off, create stamps the root alone. The
\* call succeeds, the forwarded data is the supplied data with the root
\* primary key filled in when it was missing, every other field and every
\* nested subtree is forwarded as supplied, and the only entity type whose
\* prefix is resolved is the root's.
C6_RootOnlyWhenNestedOff ==
  RootOnlyCreate =>
    /\ Succeeded
    /\ \A i \in 1..Len(log) :
         log[i].e \in {"resolve", "prefixFn", "generate"}
         /\ (log[i].e # "generate" => log[i].m = model)
    /\ LET in == Get(callArgs, kData)
           out == Get(queryArgs, kData)
           pk == PkFieldOf(model)
       IN IF in.t = "obj"
          THEN /\ SameButFor(in, out, pk)
               /\ IF Supplied(in, pk)
                  THEN Get(out, pk) = Get(in, pk) /\ generated = 0
                  ELSE /\ generated = 1
                       /\ Get(out, pk) = GeneratedIds[1]
                       /\ WellFormedId(Get(out, pk), PrefixOwed(model))
          ELSE out = in /\ generated = 0

\* Creating a User with a profile create under a table that has no entry
\* for Profile: the root is stamped, profile.create comes back as supplied
C6_Witness ==
  /\ RootOnlyCreate
  /\ Succeeded
  /\ ~Resolvable(mProfile)
  /\ generated = 1
  /\ Supplied(Get(queryArgs, kData), PkFieldOf(model))
  /\ LET profile == Get(Get(callArgs, kData), kProfile)
     IN /\ Get(profile, kCreate).t = "obj"
        /\ ~HasKey(Get(profile, kCreate), PkFieldOf(mProfile))
        /\ Get(Get(queryArgs, kData), kProfile) = profile

-----------------------------------------------------------------------------
(* C7 *)

\* The point is forwarded as the claims ask: a supplied key kept, a missing
\* one filled with a generated identifier carrying its own type's prefix
FilledIn(p) ==
  IF Missing(p)
  THEN /\ IdOut(p) \in Range(GeneratedIds)
       /\ WellFormedId(IdOut(p), PrefixOwed(p.m))
  ELSE IdOut(p) = IdIn(p)

\* C7: under every connectOrCreate key of a relation value, single entry or
\* array, the create payload of each entry is processed and stamped with the
\* inferred type's prefix when its primary key is missing, and the where
\* side of each entry is forwarded exactly as supplied.
C7_ConnectOrCreate ==
  Succeeded /\ options.processNestedCreates =>
    \A p \in Range(NestedPoints(callArgs, queryArgs)) :
      p.marker = "connectOrCreate" => FilledIn(p) /\ p.whereOut = p.whereIn

-----------------------------------------------------------------------------
(* C8 *)

RECURSIVE Walk(_, _, _)
RECURSIVE WalkEntries(_, _, _)
RECURSIVE WalkItems(_, _, _, _)
\* Every value of the supplied tree with the field it sits under and the
\* value forwarded at the same path; the objects of an array are paired in
\* order with the objects of the forwarded array
Walk(key, in, out) ==
  <<[key |-> key, in |-> in, out |-> out]>>
  \o (IF in.t = "obj"
      THEN WalkEntries(in.v, out, 1)
      ELSE IF in.t = "arr"
      THEN WalkItems(key, ObjectsOf(in), ObjectsOf(out), 1)
      ELSE <<>>)
WalkEntries(entries, out, i) ==
  IF i > Len(entries)
  THEN <<>>
  ELSE Walk(entries[i].k, entries[i].v, Get(out, entries[i].k))
       \o WalkEntries(entries, out, i + 1)
WalkItems(key, items, outs, i) ==
  IF i > Len(items)
  THEN <<>>
  ELSE Walk(key, items[i], At(outs, i))
       \o WalkItems(key, items, outs, i + 1)

Walked == Range(Walk(<<>>, callArgs, queryArgs))

\* The entries under marker `marker` of relation value w, supplied against
\* forwarded: the value itself, or the objects of the array
EntriesUnder(w, marker) ==
  LET x == Get(w.in, marker)
      ox == Get(w.out, marker)
  IN IF x.t = "obj"
     THEN <<[in |-> x, out |-> ox]>>
     ELSE [i \in 1..Len(ObjectsOf(x)) |->
             [in |-> ObjectsOf(x)[i], out |-> At(ObjectsOf(ox), i)]]

\* The nested upsert entries of the call, each with its inferred type
UpsertEntries ==
  UNION {{[m |-> TypeOfRelation(w.key), in |-> e.in, out |-> e.out] :
            e \in Range(EntriesUnder(w, kUpsert))} :
           w \in {x \in Walked : HasKey(x.in, kUpsert)}}

\* C8: under every upsert key of a relation value, single entry or array,
\* the create payload is stamped when its primary key is missing, the
\* creation markers nested inside the update payload are stamped too, and
\* the update payload's own root gains no identifier.
C8_NestedUpsert ==
  Succeeded /\ options.processNestedCreates =>
    \A e \in UpsertEntries :
      /\ Get(e.in, kCreate).t = "obj" =>
           FilledIn(Point(e.m, Get(e.in, kCreate), Get(e.out, kCreate),
                          "upsert", Undef, Undef))
      /\ HasKey(Get(e.out, kUpdate), PkFieldOf(e.m))
           = HasKey(Get(e.in, kUpdate), PkFieldOf(e.m))
      /\ \A p \in Range(PointsIn(Get(e.in, kUpdate), Get(e.out, kUpdate),
                                 e.m)) : FilledIn(p)

-----------------------------------------------------------------------------
(* C9 *)

\* C9: a top-level upsert that succeeds forwards args.where unchanged, has
\* the root of args.create stamped when its primary key was missing, has the
\* creation points nested in args.create and in args.update stamped with
\* their own prefixes when nested processing is on, and adds no primary key
\* to the root of args.update.
C9_TopLevelUpsert ==
  Succeeded /\ op = "upsert" =>
    /\ Get(queryArgs, kWhere) = Get(callArgs, kWhere)
    /\ \A p \in Range(RootPoints(callArgs, queryArgs)) : FilledIn(p)
    /\ HasKey(Get(queryArgs, kUpdate), PkFieldOf(model))
         = HasKey(Get(callArgs, kUpdate), PkFieldOf(model))
    /\ options.processNestedCreates =>
         \A p \in Range(NestedPoints(callArgs, queryArgs)) : FilledIn(p)

-----------------------------------------------------------------------------
(* C10 *)

IsNullish(x) == x.t \in {"null", "undef"}

HasNullish(x) == x.t = "arr" /\ \E i \in 1..Len(x.v) : IsNullish(x.v[i])

\* The batches of the call that hold a null or undefined entry, each with
\* its model: the root data array of createMany / createManyAndReturn, and
\* the data array of every nested createMany
NullishBatches ==
  (IF op \in {"createMany", "createManyAndReturn"}
      /\ HasNullish(Get(callArgs, kData))
   THEN {[m |-> model, in |-> Get(callArgs, kData),
          out |-> Get(queryArgs, kData)]}
   ELSE {})
  \cup (IF options.processNestedCreates
        THEN {[m |-> TypeOfRelation(w.key),
               in |-> Get(Get(w.in, kCreateMany), kData),
               out |-> Get(Get(w.out, kCreateMany), kData)] :
                w \in {x \in Walked :
                         /\ x.in.t = "obj"
                         /\ HasDataArray(x.in)
                         /\ HasNullish(Get(Get(x.in, kCreateMany), kData))}}
        ELSE {})

\* C10: a createMany data array, at the root or nested, that holds null or
\* undefined entries among valid objects does not make the call throw (the
\* only failure left is an unresolvable prefix), and every object of the
\* array whose primary key is missing is forwarded with an identifier
\* carrying the batch's model prefix.
C10_BatchToleratesNulls ==
  Done /\ NullishBatches # {} =>
    /\ thrown.kind \in {"none", "PrefixNotDefined"}
    /\ Succeeded =>
         \A b \in NullishBatches :
           \A i \in 1..Len(ObjectsOf(b.in)) :
             FilledIn(Point(b.m, ObjectsOf(b.in)[i], At(ObjectsOf(b.out), i),
                            "createMany", Undef, Undef))

-----------------------------------------------------------------------------
(* C11 *)

\* Every createMany data array of the call, supplied against forwarded: the
\* root data array of createMany / createManyAndReturn, and the data array
\* of every nested createMany
DataBatches ==
  (IF op \in {"createMany", "createManyAndReturn"}
      /\ Get(callArgs, kData).t = "arr"
   THEN {[in |-> Get(callArgs, kData), out |-> Get(queryArgs, kData)]}
   ELSE {})
  \cup {[in |-> Get(Get(w.in, kCreateMany), kData),
         out |-> Get(Get(w.out, kCreateMany), kData)] :
          w \in {x \in Walked : x.in.t = "obj" /\ HasDataArray(x.in)}}

\* C11: every createMany data array, at the root or nested, is forwarded
\* with the length it came with, and the forwarded entry at index i is null
\* or undefined exactly when the supplied entry at i is: the array is never
\* compacted.
C11_NullsKeptInPlace ==
  Succeeded =>
    \A b \in DataBatches :
      /\ b.out.t = "arr"
      /\ Len(b.out.v) = Len(b.in.v)
      /\ \A i \in 1..Len(b.in.v) :
           i <= Len(b.out.v) => IsNullish(b.out.v[i]) = IsNullish(b.in.v[i])

-----------------------------------------------------------------------------
(* C12 *)

\* The base62 digits of the buffers above, without padding, worked out once
BufferDigits == [b \in Buffers |-> Base62Digits(b)]

\* C12: for every prefix (empty, non-ASCII, very long, with control or
\* special characters) the identifier generateKSUID returns is the prefix
\* followed verbatim by exactly 27 characters of 0-9A-Za-z, so its length is
\* the prefix's plus 27; and the base62 digits of any 20-byte buffer number
\* at most 27, the encoding being those digits behind as many "0" as bring
\* it to exactly 27 characters.
C12_PrefixThenBody27 ==
  /\ \A i \in 1..Len(issued) :
       /\ WellFormedId(Str(issued[i].id), issued[i].prefix)
       /\ Len(issued[i].id) = Len(issued[i].prefix) + 27
       /\ SubSeq(issued[i].id, 1, Len(issued[i].prefix)) = issued[i].prefix
  /\ \A i \in 1..Len(encoded) :
       LET digits == BufferDigits[encoded[i].buffer]
       IN /\ Len(digits) <= 27
          /\ Len(encoded[i].str) = 27
          /\ IsBase62(encoded[i].str)
          /\ encoded[i].str = [j \in 1..(27 - Len(digits)) |-> "0"] \o digits

\* An identifier with a non-ASCII prefix made at the epoch from an all-zero
\* payload, its body 27 times "0", beside the largest buffer, whose digits
\* number 27 without padding
C12_Witness ==
  /\ \E i \in 1..Len(issued) :
       /\ issued[i].prefix =
            <<"U+00E9", "U+4E2D", "U+D83D", "U+DE00", "U+0000", "\\", "$", " ">>
       /\ issued[i].now = EPOCH
       /\ issued[i].payload = Zeros(16)
       /\ issued[i].id = issued[i].prefix \o [j \in 1..27 |-> "0"]
  /\ \E i \in 1..Len(encoded) :
       /\ encoded[i].buffer = Ones(20)
       /\ Len(BufferDigits[encoded[i].buffer]) = 27
       /\ encoded[i].str[1] # "0"

-----------------------------------------------------------------------------
(* C13 *)

\* The place of a base62 character in the alphabet, which is its place in
\* the order of character codes
Rank(c) == CHOOSE j \in 1..Len(BASE62_ALPHABET) : BASE62_ALPHABET[j] = c

\* a < b as JavaScript compares strings; where a and b first differ both
\* hold base62 characters
LexLess(a, b) ==
  \/ Len(a) < Len(b) /\ SubSeq(b, 1, Len(a)) = a
  \/ \E i \in 1..Len(a) :
       /\ i <= Len(b)
       /\ SubSeq(a, 1, i - 1) = SubSeq(b, 1, i - 1)
       /\ a[i] # b[i]
       /\ Rank(a[i]) < Rank(b[i])

\* The 4-byte big-endian timestamp of a 20-byte body
TimestampOf(buffer) == SubSeq(buffer, 1, 4)

\* x < y for two 4-byte big-endian unsigned integers, by their halves
UInt32Less(x, y) ==
  LET hi(b) == b[1] * 256 + b[2]
      lo(b) == b[3] * 256 + b[4]
  IN hi(x) < hi(y) \/ (hi(x) = hi(y) /\ lo(x) < lo(y))

\* C13: for two 20-byte bodies whose timestamps differ, the encoded strings
\* compare as the timestamps do, whatever the random suffixes; an identifier
\* generated a second or more after another with the same prefix sorts
\* strictly after it; and distinct buffers never encode to the same string.
C13_OrderPreserving ==
  /\ \A i, j \in 1..Len(encoded) :
       /\ TimestampOf(encoded[i].buffer) # TimestampOf(encoded[j].buffer) =>
            (LexLess(encoded[i].str, encoded[j].str)
               <=> UInt32Less(TimestampOf(encoded[i].buffer),
                              TimestampOf(encoded[j].buffer)))
       /\ encoded[i].buffer # encoded[j].buffer =>
            encoded[i].str # encoded[j].str
  /\ \A i, j \in 1..Len(issued) :
       /\ issued[i].prefix = issued[j].prefix
       /\ issued[j].now >= issued[i].now + 1
       => LexLess(issued[i].id, issued[j].id)

\* Two identifiers with the prefix usr_ made one second apart, the earlier
\* from the all-0xFF payload and the later from the all-zero one: the later
\* sorts after the earlier
C13_Witness ==
  /\ Len(issued) = 2
  /\ issued[1].prefix = usr_ /\ issued[2].prefix = usr_
  /\ issued[1].now = EPOCH + 255 /\ issued[2].now = EPOCH + 256
  /\ issued[1].payload = Ones(16) /\ issued[2].payload = Zeros(16)
  /\ LexLess(issued[1].id, issued[2].id)
  /\ ~LexLess(issued[2].id, issued[1].id)

-----------------------------------------------------------------------------
(* C14 *)

\* C14: two generated identifiers are equal only if they were made with the
\* same prefix, in the same second and from the same 16-byte random payload;
\* so calls between which the random source repeats no payload within one
\* second yield pairwise distinct identifiers, with one prefix or several.
C14_Unique ==
  \A i, j \in 1..Len(issued) :
    /\ issued[i].id = issued[j].id =>
         /\ issued[i].prefix = issued[j].prefix
         /\ issued[i].now = issued[j].now
         /\ issued[i].payload = issued[j].payload
    /\ (i # j /\ (issued[i].now = issued[j].now
                    => issued[i].payload # issued[j].payload))
       => issued[i].id # issued[j].id

\* Two identifiers made with the same prefix in the same second from
\* payloads that differ in their last byte alone
C14_Witness ==
  /\ Len(issued) = 2
  /\ issued[1].prefix = issued[2].prefix
  /\ issued[1].now = issued[2].now
  /\ issued[1].payload = randomBytes(1)
  /\ issued[2].payload = randomBytes(2)
  /\ issued[1].id # issued[2].id

-----------------------------------------------------------------------------
(* C15 *)

\* The fallback calls of the run that threw, by their position in the log
ThrowingCalls ==
  {i \in 1..Len(log) : log[i].e = "prefixFn" /\ prefixFnThrows(log[i].m)}

\* C15: when the fallback function throws while a type is resolved, for the
\* root or for a nested creation point, the rewrite stops there: nothing is
\* resolved or generated afterwards, query is not reached, and the caller
\* receives the error that call threw, not a prefix error and not the error
\* of a later call for another candidate type.
C15_FallbackThrowPropagates ==
  Done =>
    \A i \in ThrowingCalls :
      /\ i = Len(log)
      /\ thrown = PrefixFnError(log[i].m)
      /\ ~queried

-----------------------------------------------------------------------------
(* C16 *)

\* The fallback calls within log, by position
FallbackCalls(l) == {i \in 1..Len(l) : l[i].e = "prefixFn"}

\* Call i of the log belongs to the resolution of the type it was given
OfItsResolution(l, i) == i > 1 /\ l[i - 1] = [e |-> "resolve", m |-> l[i].m]

-----------------------------------------------------------------------------
(* C17 *)

\* The three ways the specification calls a prefix table invalid
TableMissing(x) == x.t \in {"null", "undef"}

TableIsArray(x) == x.t = "arr"

TableNotMapping(x) == x.t \notin {"obj", "arr", "null", "undef"}

\* C17: createKsuidExtension and createKsuidMiddleware throw "A valid
\* prefixMap must be provided." when the prefix table they are given is null
\* or undefined, is not a mapping, or is an array, and return an extension
\* for every other options object, whatever its other options and whatever
\* the table holds, the empty table included.
C17_ValidatedAtSetup ==
  \A i \in 1..Len(setups) :
    LET x == setups[i].given.prefixMap
        r == setups[i].result
    IN IF TableMissing(x) \/ TableNotMapping(x) \/ TableIsArray(x)
       THEN ~r.extension /\ r.err = InvalidPrefixMap
       ELSE r.extension /\ r.err = NoError

\* createKsuidMiddleware refused an array and createKsuidExtension then
\* accepted the empty table
C17_Witness ==
  /\ Len(setups) = 2
  /\ setups[1].via = "createKsuidMiddleware"
  /\ setups[1].given.prefixMap = Arr(<<Str(usr_)>>)
  /\ setups[1].result.err = InvalidPrefixMap
  /\ setups[2].via = "createKsuidExtension"
  /\ setups[2].given.prefixMap = Obj(<<>>)
  /\ setups[2].result.extension

-----------------------------------------------------------------------------
(* C18 *)

\* The field named key differs between the node supplied and forwarded
Written(p, key) ==
  \/ HasKey(p.in, key) # HasKey(p.out, key)
  \/ Get(p.in, key) # Get(p.out, key)

\* The fields of the node that hold no mapping and no array
OwnFields(p) ==
  {k \in Keys(p.in) \cup Keys(p.out) :
     Get(p.in, k).t \notin {"obj", "arr"} \/ Get(p.out, k).t \notin {"obj", "arr"}}

\* C18: at every creation point the field that is tested for a missing key
\* and the field that is stamped is the one the primaryKeyField selector
\* names for the node's own entity type: no other field of the node is
\* added or written, the selected field is written only when it was
\* missing, and then with a generated identifier, and every generated
\* identifier sits in the selected field of a creation point.
C18_PrimaryKeyPerEntity ==
  Succeeded =>
    /\ \A p \in Range(AllPoints) :
         p.out.t = "obj" =>
           /\ Keys(p.out) \ Keys(p.in) \subseteq {PkFieldOf(p.m)}
           /\ Keys(p.in) \subseteq Keys(p.out)
           /\ \A k \in OwnFields(p) \ {PkFieldOf(p.m)} : ~Written(p, k)
           /\ Written(p, PkFieldOf(p.m)) =>
                Missing(p) /\ IdOut(p) \in Range(GeneratedIds)
    /\ \A g \in Range(GeneratedIds) :
         \E p \in Range(AllPoints) : IdOut(p) = g /\ Missing(p)

\* With the selector answering uid for Profile and id otherwise: the root
\* User got its id, and a nested Profile that came with an id but no uid got
\* a uid and kept its id
C18_Witness ==
  /\ Succeeded
  /\ options.primaryKeyField = PkPerModel
  /\ \E p, q \in Range(AllPoints) :
       /\ p.marker = "root" /\ p.m = mUser
       /\ ~HasKey(p.in, kId) /\ WellFormedId(Get(p.out, kId), usr_)
       /\ ~HasKey(p.out, kUid)
       /\ q.m = mProfile
       /\ Get(q.in, kId) = kept /\ ~HasKey(q.in, kUid)
       /\ Get(q.out, kId) = kept /\ WellFormedId(Get(q.out, kUid), prof_)

-----------------------------------------------------------------------------
(* C19 *)

\* C19: the rewrite returns a new tree and leaves the caller's payload as
\* it was: once a create-style call is through, whether it reached query or
\* threw, the data the caller passed in (the data object, each element of a
\* data array, every nested object) reads exactly as it did before the call.
C19_CallerPayloadUntouched ==
  Done => supplied = callArgs

-----------------------------------------------------------------------------
(* C20 *)

\* Field key of the mapping `in`, forwarded as `out`, is the primary key of
\* a creation point that came without it
PrimaryKeyFilled(in, out, key) ==
  \E p \in Range(AllPoints) :
    p.in = in /\ p.out = out /\ key = PkFieldOf(p.m) /\ Missing(p)

RECURSIVE SameTree(_, _)
\* out is in, path by path, but for primary keys filled in at creation
\* points: mappings keep their keys, arrays their length and the position of
\* every element, everything else its value
SameTree(in, out) ==
  CASE in.t = "obj" ->
         /\ out.t = "obj"
         /\ \A k \in Keys(in) :
              /\ HasKey(out, k)
              /\ IF Get(in, k).t \in {"obj", "arr"}
                 THEN SameTree(Get(in, k), Get(out, k))
                 ELSE Get(out, k) = Get(in, k) \/ PrimaryKeyFilled(in, out, k)
         /\ \A k \in Keys(out) \ Keys(in) : PrimaryKeyFilled(in, out, k)
    [] in.t = "arr" ->
         /\ out.t = "arr"
         /\ Len(out.v) = Len(in.v)
         /\ \A i \in 1..Len(in.v) : SameTree(in.v[i], out.v[i])
    [] OTHER -> out = in

\* C20: the forwarded tree is the supplied tree except for primary keys:
\* every key of every mapping is forwarded at the same path with the same
\* value, every array with its elements in the same positions, and the only
\* keys added are the primary keys of creation points that lacked them.
C20_SameTreeButKeys ==
  Succeeded => SameTree(callArgs, queryArgs)

-----------------------------------------------------------------------------
(* C21 *)

\* The bodies the random source and the two seconds of the run can give
DrawnBodies ==
  {KsuidRandom(t, k) : t \in {Clock, Clock + 1}, k \in 1..Len(FirstDraws)}

IsGeneratedId(x) ==
  /\ x.t = "str"
  /\ Len(x.v) >= KsuidLength
  /\ SubSeq(x.v, Len(x.v) - KsuidLength + 1, Len(x.v)) \in DrawnBodies

\* The payload with the body of every generated identifier blanked: what is
\* left is where identifiers were stamped, with which prefix, and every
\* field the rewrite did not write
RECURSIVE Skeleton(_)
Skeleton(x) ==
  CASE IsGeneratedId(x) ->
         Str(SubSeq(x.v, 1, Len(x.v) - KsuidLength) \o <<"#">>)
    [] x.t = "arr" -> Arr([i \in 1..Len(x.v) |-> Skeleton(x.v[i])])
    [] x.t = "obj" ->
         Obj([i \in 1..Len(x.v) |-> Entry(x.v[i].k, Skeleton(x.v[i].v))])
    [] OTHER -> x

\* What the handler makes of call i when it runs with no other call about
Alone(i) == Intercept(inflight[i].call)

\* Call i has run
HasRun(i) == inflight[i].status # "waiting"

-----------------------------------------------------------------------------
(* C22 *)

\* The middleware has run, its call of next settled or not
Ran == pc \in {"done", "settled"}

\* An action other than create and createMany, or no data to create from
NotACreation ==
  \/ op \notin {<<"c","r","e","a","t","e">>,
                <<"c","r","e","a","t","e","M","a","n","y">>}
  \/ Get(Get(callArgs, kArgs), kData).t \in {"undef", "null"}

\* C22: for every model and every action other than create and createMany,
\* and for a create or createMany whose data is missing or null, the
\* middleware calls next with the params exactly as received, generates no
\* identifier, and returns what next returns.
C22_OnlyCreationsRewritten ==
  Ran /\ NotACreation =>
    /\ queried
    /\ thrown = NoError
    /\ queryArgs = callArgs
    /\ supplied = callArgs
    /\ generated = 0
    /\ pc = "settled" => returned = answer

\* The same for the models the configuration resolves a prefix for
C22_ForModelsWithPrefix ==
  Ran /\ NotACreation /\ (model = <<>> \/ Resolvable(model)) =>
    /\ queried
    /\ thrown = NoError
    /\ queryArgs = callArgs
    /\ supplied = callArgs
    /\ generated = 0
    /\ pc = "settled" => returned = answer

-----------------------------------------------------------------------------
(* C23 *)

\* The name without its last n characters
DropLast(name, n) == SubSeq(name, 1, Len(name) - n)

\* The last n characters of the name, the whole name when it is shorter
LastOf(name, n) ==
  IF Len(name) <= n THEN name ELSE SubSeq(name, Len(name) - n + 1, Len(name))

\* The stated rule (section 4.4), the overrides first
StatedInference(field) ==
  CASE field = <<>> -> <<>>
    [] field \in {<<"i","t","e","m","s">>, <<"i","t","e","m">>} ->
         <<"O","r","d","e","r","I","t","e","m">>
    [] field = <<"a","u","t","h","o","r">> -> <<"U","s","e","r">>
    [] OTHER ->
         LET name == [i \in 1..Len(field) |->
                        IF i = 1 THEN toUpperCase(field[i]) ELSE field[i]]
         IN IF Len(name) > 3 /\ LastOf(name, 3) = <<"i","e","s">>
            THEN DropLast(name, 3) \o <<"y">>
            ELSE IF Len(name) > 1 /\ LastOf(name, 1) = <<"s">>
            THEN DropLast(name, 1)
            ELSE name

\* C23: for every field name, the entity type the relation-name inference
\* gives is the one the stated rule gives: overrides first (items, item ->
\* OrderItem, author -> User), else first letter capitalised and a final
\* "ies" of a longer name turned into "y", else a final "s" of a longer
\* name dropped, else the capitalised name; the empty name maps to itself.
C23_InferenceIsStatedRule ==
  pc = "inferred" => model = StatedInference(callArgs.v)

\* The same of inferModelNameFromRelation alone
C23_NewestInference ==
  pc = "inferred" /\ op = "inferModelNameFromRelation" =>
    model = StatedInference(callArgs.v)

-----------------------------------------------------------------------------
(* C24 *)

\* The resolution attempts of the call, by position in the log, and those
\* among them that failed
Attempts == {i \in 1..Len(log) : log[i].e = "resolve"}

FailedAttempts == {i \in Attempts : ~Resolvable(log[i].m)}

\* Attempt i is followed at once by one attempt for the candidate
RetriedAs(i, candidate) ==
  \E j \in Attempts :
    /\ j > i
    /\ log[j].m = candidate
    /\ \A k \in (i + 1)..(j - 1) : log[k].e = "prefixFn" /\ log[k].m = log[i].m

\* Attempt i ended the call: nothing is resolved or generated after it, the
\* error names its type and query is not called
Propagated(i) ==
  /\ \A k \in (i + 1)..Len(log) : log[k].e = "prefixFn" /\ log[k].m = log[i].m
  /\ thrown \in {PrefixNotDefined(log[i].m), PrefixFnError(log[i].m)}
  /\ ~queried

\* C24: a failed resolution of a nested type is retried only when the type
\* inferred is Item, and then once, as OrderItem; a failed resolution of any
\* other type, the retry included, ends the call with that failure. So no
\* nested creation point is resolved more than twice.
C24_OneRetryForItem ==
  Done =>
    \A i \in FailedAttempts :
      IF i > 1 /\ log[i].m = mItem
      THEN RetriedAs(i, mOrderItem)
      ELSE Propagated(i)

\* Item fails and OrderItem resolves: the nested record is stamped with the
\* prefix of OrderItem and the call goes through
C24_Witness ==
  /\ Succeeded
  /\ \E i \in FailedAttempts :
       /\ i > 1
       /\ log[i].m = mItem
       /\ i + 2 = Len(log)
       /\ log[i + 1] = [e |-> "resolve", m |-> mOrderItem]
       /\ log[i + 2] = [e |-> "generate", m |-> <<"o","i","_">>]

\* Item fails and the retry fails too: the caller gets the failure
C24_WitnessBothFail ==
  /\ Done
  /\ thrown = PrefixNotDefined(mOrderItem)
  /\ \E i \in FailedAttempts :
       log[i].m = mItem /\ i + 1 = Len(log) /\ (i + 1) \in FailedAttempts

-----------------------------------------------------------------------------
(* C25 *)

\* The positions in the log of the generator calls, in call order
GeneratorCalls ==
  SelectSeq([i \in 1..Len(log) |-> i], LAMBDA i : log[i].e = "generate")

\* Where in the log the identifier forwarded at p was generated
StampedAt(p) ==
  GeneratorCalls[CHOOSE k \in 1..Len(GeneratedIds) : GeneratedIds[k] = IdOut(p)]

\* The creation points below p
Descendants(p) == Range(PointsIn(p.in, p.out, p.m))

\* p was stamped before its descendant q was resolved and stamped
StampedBefore(p, q) ==
  /\ StampedAt(p) < StampedAt(q)
  /\ \E i \in (StampedAt(p) + 1)..(StampedAt(q) - 1) :
       log[i] = [e |-> "resolve", m |-> q.m]

\* C25: every creation point is resolved, then stamped, and only then are
\* the creation points below it resolved and stamped: each generator call
\* comes after a resolution that gave its prefix, and the identifier of a
\* stamped point, root or nested, is generated before any stamped point
\* below it is resolved.
C25_ResolveStampThenChildren ==
  Succeeded =>
    /\ \A j \in Range(GeneratorCalls) :
         \E i \in 1..(j - 1) :
           /\ log[i].e = "resolve"
           /\ Resolvable(log[i].m)
           /\ PrefixOwed(log[i].m) = log[j].m
    /\ \A p \in Range(AllPoints) :
         \A q \in Descendants(p) :
           Stamped(p) /\ Stamped(q) => StampedBefore(p, q)

\* The part of C25 about resolution: a prefix is resolved before it is used
C25_ResolvedBeforeStamped ==
  Succeeded =>
    \A j \in Range(GeneratorCalls) :
      \E i \in 1..(j - 1) :
        /\ log[i].e = "resolve"
        /\ Resolvable(log[i].m)
        /\ PrefixOwed(log[i].m) = log[j].m

-----------------------------------------------------------------------------
(* C26 *)

RECURSIVE MappingNodes(_)
RECURSIVE MappingNodesOf(_, _)
\* The mappings of tree x, x included, one entry per node
MappingNodes(x) ==
  IF x.t = "obj"
  THEN <<x>> \o MappingNodesOf([i \in 1..Len(x.v) |-> x.v[i].v], 1)
  ELSE IF x.t = "arr"
  THEN MappingNodesOf(x.v, 1)
  ELSE <<>>
MappingNodesOf(xs, i) ==
  IF i > Len(xs)
  THEN <<>>
  ELSE MappingNodes(xs[i]) \o MappingNodesOf(xs, i + 1)

\* How often each value occurs in seq
BagOf(seq) ==
  [x \in Range(seq) |-> Cardinality({i \in 1..Len(seq) : seq[i] = x})]

\* C26: applied to any finite tree of mappings, arrays and scalars the
\* traversal comes to an end, returning a value of the kind it was given or
\* throwing, and it has then gone through no mapping of the tree more often
\* than the mapping occurs in the tree.
C26_TerminatesNoRevisit ==
  /\ pc = "idle" =>
       LET r == processNestedCreates(callArgs, model, context, NoEffects)
       IN Failed(r.st) \/ r.val.t = callArgs.t
  /\ pc = "traversed" =>
       BagOf(visited) \sqsubseteq BagOf(MappingNodes(callArgs))

\* The traversal of the newest revision has gone down a chain of plain
\* mappings to its end and through equal mappings side by side
C26_Witness ==
  /\ pc = "traversed"
  /\ op = "processNestedCreates"
  /\ thrown = NoError
  /\ callArgs = Chain(MaxDepth + 3)
  /\ Len(visited) = MaxDepth + 4

\* The traversal has met the same mapping at two places of one tree
C26_WitnessEqualNodes ==
  /\ pc = "traversed"
  /\ op = "processNestedCreates"
  /\ thrown = NoError
  /\ \E x \in Range(visited) : BagOf(visited)[x] >= 2

-----------------------------------------------------------------------------
(* C27 *)

RECURSIVE HoldsValue(_, _)
\* Value v sits somewhere in tree x
HoldsValue(x, v) ==
  \/ x = v
  \/ /\ x.t = "obj"
     /\ \E i \in 1..Len(x.v) : HoldsValue(x.v[i].v, v)
  \/ /\ x.t = "arr"
     /\ \E i \in 1..Len(x.v) : HoldsValue(x.v[i], v)

\* Every identifier generated during the call sits in tree x
CarriesGenerated(x) == \A id \in Range(GeneratedIds) : HoldsValue(x, id)

\* C27: a handler that does not throw calls query, after the rewrite and
\* with the args that carry every identifier generated during the call; a
\* handler that throws does not call it; what the handler returns settles
\* exactly as the query did, with its value or with its error, and the
\* identifiers are still in the args then.
C27_StampedBeforeForwarded ==
  /\ Ran => (queried <=> thrown = NoError)
  /\ Ran /\ queried =>
       /\ queryArgs = args
       /\ Len(GeneratedIds) = generated
       /\ CarriesGenerated(queryArgs)
  /\ pc = "done" /\ queried => returned = Unsettled
  /\ pc = "settled" =>
       /\ queried
       /\ answer \in QueryOutcomes
       /\ returned = answer
       /\ CarriesGenerated(args)

\* The query failed after two identifiers were stamped: the error reached
\* the caller and the args still hold both
C27_Witness ==
  /\ pc = "settled"
  /\ answer = Rejected(DatabaseError)
  /\ returned = Rejected(DatabaseError)
  /\ generated >= 2
  /\ CarriesGenerated(args)
  /\ args # callArgs

\* The query answered with a row and the handler returned that row
C27_WitnessResolved ==
  /\ pc = "settled"
  /\ answer.status = "resolved"
  /\ returned = answer
  /\ generated >= 2

-----------------------------------------------------------------------------
(* C28 *)

\* The calls of createKsuidMiddleware among the recorded factory calls
MiddlewareCalls ==
  SelectSeq(setups, LAMBDA c : c.via = "createKsuidMiddleware")

\* C28: of the calls of the deprecated generateKSUID the first one, and no
\* other, emits the notice, and likewise of the calls of
\* createKsuidMiddleware; neither function's notice counts for the other;
\* every call of generateKSUID returns the generator's next identifier for
\* its prefix and every call of createKsuidMiddleware what
\* createKsuidExtension gives for the same options, notice or not.
C28_NoticeOnce ==
  /\ \A i \in 1..Len(issued) :
       /\ issued[i].warned <=> i = 1
       /\ issued[i].id =
            Str(issued[i].prefix \o KsuidRandom(issued[i].now, i))
  /\ \A i \in 1..Len(MiddlewareCalls) :
       /\ MiddlewareCalls[i].warned <=> i = 1
       /\ MiddlewareCalls[i].result =
            createKsuidExtension(MiddlewareCalls[i].given)
  /\ hasWarned <=> Len(issued) > 0
  /\ middlewareWarned <=> Len(MiddlewareCalls) > 0

\* Two calls of each function: the first of each gave the notice, the second
\* did not, and the second results are as good as the first
C28_Witness ==
  /\ Len(issued) = 2
  /\ issued[1].warned /\ ~issued[2].warned
  /\ issued[1].prefix = issued[2].prefix
  /\ issued[1].id # issued[2].id
  /\ WellFormedId(issued[2].id, issued[2].prefix)

\* One call of each function: each gave its own notice
C28_WitnessSeparate ==
  /\ Len(issued) = 1
  /\ Len(MiddlewareCalls) = 1
  /\ issued[1].warned
  /\ MiddlewareCalls[1].warned
  /\ MiddlewareCalls[1].result.extension

\* The second call of createKsuidMiddleware gave no notice and the extension
C28_WitnessMiddleware ==
  /\ Len(MiddlewareCalls) = 2
  /\ MiddlewareCalls[1].warned /\ ~MiddlewareCalls[2].warned
  /\ MiddlewareCalls[1].result.err = InvalidPrefixMap
  /\ MiddlewareCalls[2].result.extension

-----------------------------------------------------------------------------
(* C29 *)

\* The fields of the payloads that name a relation
RelationFields == {kProfile, kPosts, kItemsField}

\* The creation markers relation value v carries
MarkersOf(v) ==
  {k \in {kCreate, kCreateMany, kConnectOrCreate, kUpsert} :
     CASE k = kCreate -> HasKey(v, kCreate) /\ Get(v, kCreate).t \in {"obj", "arr"}
       [] k = kCreateMany -> HasDataArray(v)
       [] OTHER -> HasKey(v, k)}

\* Every point of the sequence that lacks its key and whose type has a
\* prefix was stamped
AllStamped(points) ==
  \A p \in Range(points) : Missing(p) /\ Resolvable(p.m) => Stamped(p)

\* The creation points in the mappings that sit beside the markers of
\* relation value v, found under field key
BesideMarkers(key, v, ov) ==
  LET beside == SelectSeq(v.v, LAMBDA e :
                  /\ e.k \notin {kCreate, kCreateMany, kConnectOrCreate, kUpsert}
                  /\ e.v.t = "obj")
      points[i \in 0..Len(beside)] ==
        IF i = 0
        THEN <<>>
        ELSE points[i - 1]
             \o PointsOfField(beside[i].k, beside[i].v, Get(ov, beside[i].k),
                              TypeOfRelation(key))
  IN points[Len(beside)]

\* C29: with nested processing on, when a relation value carries more than
\* one creation marker the create payloads under every one of its markers
\* are stamped where their key is missing, and the mappings that sit beside
\* a marker are scanned too, so the creation points in them are stamped.
C29_NoMarkerSkipped ==
  Succeeded /\ options.processNestedCreates =>
    \A w \in Walked :
      /\ w.key \in RelationFields
      /\ w.in.t = "obj"
      /\ w.out.t = "obj"
      /\ MarkersOf(w.in) # {}
      =>
        /\ Cardinality(MarkersOf(w.in)) > 1 =>
             AllStamped(PointsOfField(w.key, w.in, w.out, model))
        /\ AllStamped(BesideMarkers(w.key, w.in, w.out))

-----------------------------------------------------------------------------
(* C30 *)

\* Root record p was forwarded as the operation owes it whatever the toggle:
\* a missing key filled with an identifier of the model's prefix, a supplied
\* key kept
RootAsOwed(p) ==
  IF Missing(p)
  THEN Stamped(p) /\ WellFormedId(IdOut(p), PrefixOwed(model))
  ELSE IdOut(p) = IdIn(p)

\* C30: the root records that get stamped, and their prefix, do not depend
\* on options.processNestedCreates: with the toggle on and with it off,
\* for create, createMany, createManyAndReturn and upsert, a root given as
\* a single object or as an element of an array is stamped with the model's
\* prefix exactly when its key is missing.
C30_ToggleKeepsRoots ==
  Succeeded => \A p \in Range(RootPoints(callArgs, queryArgs)) : RootAsOwed(p)

\* With the toggle on every root is stamped as owed
C30_RootsWhenNested ==
  Succeeded /\ options.processNestedCreates =>
    \A p \in Range(RootPoints(callArgs, queryArgs)) : RootAsOwed(p)

\* With the toggle off the roots of create and upsert and the elements of a
\* createMany array are stamped as owed
C30_RootsWhenFlat ==
  /\ Succeeded
  /\ ~options.processNestedCreates
  /\ ~(op \in {"createMany", "createManyAndReturn"}
       /\ Get(callArgs, kData).t = "obj")
  => \A p \in Range(RootPoints(callArgs, queryArgs)) : RootAsOwed(p)

====
